---- MODULE Spec2Model ----
(***************************************************************************)
(* A model of the hard-time component report pipeline of HTC-Management:   *)
(* header repair (htc_management/data_loader.py), normalisation            *)
(* (htc_management/analytics/preparation.py), the aggregations             *)
(* (htc_management/analytics/summaries.py, breakdowns.py) and the two       *)
(* entry points (app.py, cli.py).                                          *)
(*                                                                         *)
(* Text is a sequence of one-character strings, so that trimming,          *)
(* lower-casing, regular-expression search and label formatting are        *)
(* computed character by character as the Python code computes them.       *)
(* A cell of a table is a record [k, v]: k names the Python type of the    *)
(* value and v holds it.  A timestamp is a number of ticks since           *)
(* 1970-01-01T00:00 (TicksPerDay ticks a day); a float number of days is   *)
(* held as a number of ticks (days = v / TicksPerDay).  The instants of    *)
(* the model are the ticks: the model says nothing about an instant        *)
(* between two ticks.  Where the model covers a part of what the code      *)
(* accepts, an operator has no value outside that part (a CASE without an  *)
(* arm, a function applied outside its domain) instead of a guessed one.   *)
(***************************************************************************)
EXTENDS Integers, Sequences, FiniteSets, TLC

VARIABLES
    p_in,        \* prepare_component_dataframe: the caller's table df
    p_ref,       \* prepare_component_dataframe: reference_date
    p_out,       \* result of prepare_component_dataframe(p_in, p_ref)
    p_out2,      \* result of prepare_component_dataframe(p_out, p_ref)
    p_pc,        \* "start", "once", "twice"
    b_in,        \* _compute_due_bucket: the argument days_until_due
    b_out,       \* _compute_due_bucket: the label returned
    b_pc,        \* "start", "done"
    h_in,        \* _deduplicate_headers: the argument headers
    h_out,       \* _deduplicate_headers: the list returned
    h_pc,        \* "start", "done"
    l_in,        \* data_loader: the table pandas.read_excel returned
    l_out,       \* the table _promote_header_row or _clean_workbook_frame returned
    l_pc,        \* "start", "promoted", "cleaned"
    a_entry,     \* the entry point running: "app" or "cli"
    a_source,    \* how the workbook is supplied: "default", "explicit", "upload"
    a_sheet,     \* the table pandas.read_excel returns for the workbook
    a_today,     \* the current UTC date at midnight, the default reference_date
    a_pc,        \* where the run is: "import", "main", "done", "failed"
    a_reportlab, \* exporters._REPORTLAB_AVAILABLE: reportlab could be imported
    a_error,     \* the exception that ended the run, "none" while there is none
    a_excel,     \* the file at args.excel: "absent" or "written"
    a_pdf,       \* the file at args.pdf: "absent" or "written"
    a_stdout,    \* the lines printed so far
    g_in,        \* analytics: the table df an aggregation function is called with
    g_kind,      \* "normalized": g_in came from prepare_component_dataframe; "raw"
    g_missing,   \* the column removed from the normalised table, <<>> for none
    g_topn,      \* the argument top_n
    g_today,     \* the current UTC date at midnight (report_date)
    g_fn,        \* the aggregation function that was called
    g_summary,   \* the ComponentSummary build_summary returned
    g_out,       \* the table the aggregation function returned
    g_pc,        \* "start", "summarised", "done"
    w_in,        \* repeated runs: the table every run of prepare_component_dataframe gets
    w_ref,       \* repeated runs: the argument reference_date, None when not given
    w_now,       \* the wall clock, pd.Timestamp.utcnow()
    w_outs,      \* the runs made so far: the clock at the call, the table returned
    s_in,        \* build_due_time_series: the table df
    s_freq,      \* build_due_time_series: the argument freq
    s_out,       \* the TimeSeriesResult returned
    s_pc,        \* "start", "done"
    f_in,        \* _format_metric_value: the argument value
    f_out,       \* _format_metric_value: the text returned
    f_pc         \* "start", "done"

prepVars == <<p_in, p_ref, p_out, p_out2, p_pc>>
bucketVars == <<b_in, b_out, b_pc>>
headerVars == <<h_in, h_out, h_pc>>
loaderVars == <<l_in, l_out, l_pc>>
outVars == <<a_reportlab, a_excel, a_pdf, a_stdout>>
appVars == <<a_entry, a_source, a_sheet, a_today, a_pc, a_error, outVars>>
aggVars == <<g_in, g_kind, g_missing, g_topn, g_today, g_fn, g_summary, g_out, g_pc>>
clockVars == <<w_in, w_ref, w_now, w_outs>>
seriesVars == <<s_in, s_freq, s_out, s_pc>>
formatVars == <<f_in, f_out, f_pc>>
vars == <<prepVars, bucketVars, headerVars, loaderVars, appVars, aggVars, clockVars, seriesVars,
          formatVars>>

(***************************************************************************)
(* Bounds of the model.                                                    *)
(***************************************************************************)
TicksPerDay == 2
MaxRows == 2

(***************************************************************************)
(* Characters and text.                                                    *)
(***************************************************************************)
UpperSeq == <<"A", "B", "C", "D", "E", "F", "G", "H", "I", "J", "K", "L", "M", "N", "O", "P", "Q", "R", "S", "T", "U", "V", "W", "X", "Y", "Z">>
LowerSeq == <<"a", "b", "c", "d", "e", "f", "g", "h", "i", "j", "k", "l", "m", "n", "o", "p", "q", "r", "s", "t", "u", "v", "w", "x", "y", "z">>
DigitSeq == <<"0", "1", "2", "3", "4", "5", "6", "7", "8", "9">>

Range(s) == {s[i] : i \in DOMAIN s}
UpperLetters == Range(UpperSeq)
LowerLetters == Range(LowerSeq)
Digits == Range(DigitSeq)
IsUpper(c) == c \in UpperLetters
IsLower(c) == c \in LowerLetters
IsDigit(c) == c \in Digits
IsAlnum(c) == IsUpper(c) \/ IsLower(c) \/ IsDigit(c)

\* The alphabet of the model: the characters of its texts, in code-point
\* order (the order of str.__lt__).  A printable ASCII or Latin-1 character is
\* written as itself; any other character is written U+ and the four
\* hexadecimal digits of its code point ("<=" and "--" stand for U+2264 and
\* U+2014).  The alphabet holds ASCII, Latin-1, every character of
\* str.isspace() and a few letters and digits of other scripts.
CodeOrder ==
    << "\t", "\n", "U+000B", "\f", "\r", "U+001C", "U+001D", "U+001E",
       "U+001F", " ", "!", "U+0022", "#", "U+0024", "%", "&", "'", "(", ")",
       "*", "+", ",", "-", ".", "/", "0", "1", "2", "3", "4", "5", "6", "7",
       "8", "9", ":", ";", "<", "=", ">", "?", "@", "A", "B", "C", "D", "E",
       "F", "G", "H", "I", "J", "K", "L", "M", "N", "O", "P", "Q", "R", "S",
       "T", "U", "V", "W", "X", "Y", "Z", "[", "U+005C", "]", "^", "_",
       "U+0060", "a", "b", "c", "d", "e", "f", "g", "h", "i", "j", "k", "l",
       "m", "n", "o", "p", "q", "r", "s", "t", "u", "v", "w", "x", "y", "z",
       "{", "|", "}", "~", "U+0085", "U+00A0", "¡", "¢", "£", "¤", "¥", "¦",
       "§", "¨", "©", "ª", "«", "¬", "U+00AD", "®", "¯", "°", "±", "²", "³",
       "´", "µ", "¶", "·", "¸", "¹", "º", "»", "¼", "½", "¾", "¿", "À", "Á",
       "Â", "Ã", "Ä", "Å", "Æ", "Ç", "È", "É", "Ê", "Ë", "Ì", "Í", "Î", "Ï",
       "Ð", "Ñ", "Ò", "Ó", "Ô", "Õ", "Ö", "×", "Ø", "Ù", "Ú", "Û", "Ü", "Ý",
       "Þ", "ß", "à", "á", "â", "ã", "ä", "å", "æ", "ç", "è", "é", "ê", "ë",
       "ì", "í", "î", "ï", "ð", "ñ", "ò", "ó", "ô", "õ", "ö", "÷", "ø", "ù",
       "ú", "û", "ü", "ý", "þ", "ÿ", "U+0100", "U+0101", "U+0130", "U+0131",
       "U+0178", "U+017F", "U+0307", "U+0391", "U+03B1", "U+0410", "U+0430",
       "U+0660", "U+1200", "U+1680", "U+2000", "U+2001", "U+2002", "U+2003",
       "U+2004", "U+2005", "U+2006", "U+2007", "U+2008", "U+2009", "U+200A",
       "--", "U+2028", "U+2029", "U+202F", "U+205F", "U+212A", "U+212B",
       "<=", "U+3000" >>
Alphabet == Range(CodeOrder)

\* A character of the alphabet.  The tables below are Python's tables for the
\* characters of the alphabet; a character outside the alphabet has no value
\* in the operators that look a character up.
AlphabetChar == [c \in Alphabet |-> c]
Char(c) == AlphabetChar[c]

\* str.isspace(): the characters str.strip() removes
SpaceChars ==
    {"\t", "\n", "U+000B", "\f", "\r", "U+001C", "U+001D", "U+001E",
     "U+001F", " ", "U+0085", "U+00A0", "U+1680", "U+2000", "U+2001",
     "U+2002", "U+2003", "U+2004", "U+2005", "U+2006", "U+2007", "U+2008",
     "U+2009", "U+200A", "U+2028", "U+2029", "U+202F", "U+205F", "U+3000"}

\* the characters of the alphabet beyond ASCII that \w and \b of a str pattern
\* take as word characters (str.isalnum())
UnicodeWordChars ==
    {"ª", "²", "³", "µ", "¹", "º", "¼", "½", "¾", "À", "Á", "Â", "Ã", "Ä",
     "Å", "Æ", "Ç", "È", "É", "Ê", "Ë", "Ì", "Í", "Î", "Ï", "Ð", "Ñ", "Ò",
     "Ó", "Ô", "Õ", "Ö", "Ø", "Ù", "Ú", "Û", "Ü", "Ý", "Þ", "ß", "à", "á",
     "â", "ã", "ä", "å", "æ", "ç", "è", "é", "ê", "ë", "ì", "í", "î", "ï",
     "ð", "ñ", "ò", "ó", "ô", "õ", "ö", "ø", "ù", "ú", "û", "ü", "ý", "þ",
     "ÿ", "U+0100", "U+0101", "U+0130", "U+0131", "U+0178", "U+017F",
     "U+0391", "U+03B1", "U+0410", "U+0430", "U+0660", "U+1200", "U+212A",
     "U+212B"}

IsWord(c) == IsAlnum(c) \/ c = "_" \/ Char(c) \in UnicodeWordChars

\* the characters of the alphabet beyond ASCII that are digits or numbers
\* (str.isdigit(), str.isnumeric()), which int() and a date parser may read
UnicodeNumericChars ==
    {"²", "³", "¹", "¼", "½", "¾", "U+0660"}

\* str.lower() of the characters of the alphabet beyond ASCII it changes
UnicodeLower ==
    { <<"À", <<"à">> >>, <<"Á", <<"á">> >>, <<"Â", <<"â">> >>,
      <<"Ã", <<"ã">> >>, <<"Ä", <<"ä">> >>, <<"Å", <<"å">> >>,
      <<"Æ", <<"æ">> >>, <<"Ç", <<"ç">> >>, <<"È", <<"è">> >>,
      <<"É", <<"é">> >>, <<"Ê", <<"ê">> >>, <<"Ë", <<"ë">> >>,
      <<"Ì", <<"ì">> >>, <<"Í", <<"í">> >>, <<"Î", <<"î">> >>,
      <<"Ï", <<"ï">> >>, <<"Ð", <<"ð">> >>, <<"Ñ", <<"ñ">> >>,
      <<"Ò", <<"ò">> >>, <<"Ó", <<"ó">> >>, <<"Ô", <<"ô">> >>,
      <<"Õ", <<"õ">> >>, <<"Ö", <<"ö">> >>, <<"Ø", <<"ø">> >>,
      <<"Ù", <<"ù">> >>, <<"Ú", <<"ú">> >>, <<"Û", <<"û">> >>,
      <<"Ü", <<"ü">> >>, <<"Ý", <<"ý">> >>, <<"Þ", <<"þ">> >>,
      <<"U+0100", <<"U+0101">> >>, <<"U+0130", <<"i", "U+0307">> >>,
      <<"U+0178", <<"ÿ">> >>, <<"U+0391", <<"U+03B1">> >>,
      <<"U+0410", <<"U+0430">> >>, <<"U+212A", <<"k">> >>,
      <<"U+212B", <<"å">> >> }

\* the characters of the alphabet beyond ASCII that re.IGNORECASE matches with
\* an ASCII letter
IgnoreCaseLetters ==
    <<<<"U+0130", "i">>, <<"U+0131", "i">>, <<"U+017F", "s">>, <<"U+212A", "k">>>>

SetMin(S) == CHOOSE x \in S : \A y \in S : x <= y
SetMax(S) == CHOOSE x \in S : \A y \in S : y <= x
MinOrZero(K) == IF K = {} THEN 0 ELSE SetMin(K)
MaxOrZero(K) == IF K = {} THEN 0 ELSE SetMax(K)

\* The position of c in a sequence without repetitions.
IndexOf(seq, c) == CHOOSE i \in DOMAIN seq : seq[i] = c

\* The subsequence of s at the positions K, in order.
Pick(s, K) ==
    LET kept[i \in 0..Len(s)] ==
            IF i = 0 THEN <<>>
            ELSE IF i \in K THEN Append(kept[i - 1], s[i]) ELSE kept[i - 1]
    IN  kept[Len(s)]

\* str.lower(): the characters one character becomes
ascii_lower_char(c) == IF IsUpper(c) THEN LowerSeq[IndexOf(UpperSeq, c)] ELSE c
LowerOf(c, hit) == IF hit = {} THEN <<ascii_lower_char(c)>> ELSE (CHOOSE p \in hit : TRUE)[2]
LowerChars == [c \in Alphabet |-> LowerOf(c, {p \in UnicodeLower : p[1] = c})]
lower_char(c) == LowerChars[c]
RECURSIVE str_lower(_)
str_lower(s) == IF s = <<>> THEN <<>> ELSE lower_char(Head(s)) \o str_lower(Tail(s))

\* The part of s from the first to the last of the positions K
Between(s, K) == IF K = {} THEN <<>> ELSE SubSeq(s, SetMin(K), SetMax(K))

\* str.strip(ch)
strip_char(s, ch) == Between(s, {i \in DOMAIN s : s[i] # ch})

\* str.strip(): leading and trailing whitespace removed
str_strip(s) == Between(s, {i \in DOMAIN s : Char(s[i]) \notin SpaceChars})

\* sub in s, and the first position where it occurs (0 when it does not)
FindAt(s, sub, i) == i + Len(sub) - 1 <= Len(s) /\ SubSeq(s, i, i + Len(sub) - 1) = sub
str_find(s, sub) == MinOrZero({i \in 1..(Len(s) + 1) : FindAt(s, sub, i)})
str_contains(s, sub) == str_find(s, sub) # 0

\* re.search(pat, s, re.IGNORECASE) for a pattern of ASCII letters, which is
\* series.str.contains(pat, case=False)
IgnoreCaseOf(c, hit) == IF hit = {} THEN ascii_lower_char(c) ELSE (CHOOSE p \in hit : TRUE)[2]
IgnoreCaseChars ==
    [c \in Alphabet |-> IgnoreCaseOf(c, {p \in Range(IgnoreCaseLetters) : p[1] = c})]
ignorecase_char(c) == IgnoreCaseChars[c]
ignorecase(s) == [i \in DOMAIN s |-> ignorecase_char(s[i])]
contains_ignorecase(s, pat) == str_contains(ignorecase(s), ignorecase(pat))

\* str(n) for a small natural number
RECURSIVE str_of_nat(_)
str_of_nat(n) ==
    IF n < 10 THEN <<DigitSeq[n + 1]>> ELSE str_of_nat(n \div 10) \o <<DigitSeq[(n % 10) + 1]>>

DigitVal(c) == IndexOf(DigitSeq, c) - 1

(***************************************************************************)
(* Cells.                                                                  *)
(***************************************************************************)
Null == [k |-> "null", v |-> 0]          \* NaN, the missing value of a sheet
NoneCell == [k |-> "null", v |-> 1]      \* None
NaT == [k |-> "null", v |-> 2]           \* pd.NaT
NA == [k |-> "null", v |-> 3]            \* pd.NA
Str(s) == [k |-> "str", v |-> s]         \* a Python str
Ts(t) == [k |-> "ts", v |-> t]           \* a naive pandas Timestamp
Days(n) == [k |-> "days", v |-> n]       \* a float number of days, n ticks
Bool(b) == [k |-> "bool", v |-> b]
Count(n) == [k |-> "int", v |-> n]         \* an int
Float1(n) == [k |-> "float1", v |-> n]

\* Days from 1970-01-01 to the civil date y-m-d (proleptic Gregorian).
DaysFromCivil(y, m, d) ==
    LET yy == IF m <= 2 THEN y - 1 ELSE y
        era == yy \div 400
        yoe == yy - era * 400
        mp == IF m > 2 THEN m - 3 ELSE m + 9
        doy == (153 * mp + 2) \div 5 + d - 1
        doe == yoe * 365 + yoe \div 4 - yoe \div 100 + doy
    IN  era * 146097 + doe - 719468

IsLeap(y) == (y % 4 = 0 /\ y % 100 # 0) \/ y % 400 = 0
DaysInMonth(y, m) ==
    IF m = 2 THEN (IF IsLeap(y) THEN 29 ELSE 28)
    ELSE IF m \in {4, 6, 9, 11} THEN 30 ELSE 31

Midnight(y, m, d) == DaysFromCivil(y, m, d) * TicksPerDay

(***************************************************************************)
(* preparation.py                                                          *)
(***************************************************************************)
COLUMN_ALIASES == <<
    << <<"p", "a", "r", "t", "_", "n", "a", "m", "e">>, <<"p", "a", "r", "t", "_", "n", "a", "m", "e">> >>,
    << <<"o", "e", "m", "_", "p", "a", "r", "t", "_", "n", "o">>, <<"o", "e", "m", "_", "p", "a", "r", "t", "_", "n", "u", "m", "b", "e", "r">> >>,
    << <<"o", "e", "m", "_", "p", "a", "r", "t", "_", "n", "u", "m", "b", "e", "r">>, <<"o", "e", "m", "_", "p", "a", "r", "t", "_", "n", "u", "m", "b", "e", "r">> >>,
    << <<"s", "e", "r", "i", "a", "l", "_", "n", "o", "_", "b", "a", "t", "c", "h", "_", "n", "o">>, <<"s", "e", "r", "i", "a", "l", "_", "n", "u", "m", "b", "e", "r">> >>,
    << <<"s", "e", "r", "i", "a", "l", "_", "n", "u", "m", "b", "e", "r">>, <<"s", "e", "r", "i", "a", "l", "_", "n", "u", "m", "b", "e", "r">> >>,
    << <<"i", "n", "s", "t", "a", "l", "l", "e", "d", "_", "o", "n">>, <<"i", "n", "s", "t", "a", "l", "l", "a", "t", "i", "o", "n", "_", "s", "i", "t", "e">> >>,
    << <<"c", "o", "n", "f", "i", "g", "_", "s", "l", "o", "t">>, <<"c", "o", "n", "f", "i", "g", "_", "s", "l", "o", "t">> >>,
    << <<"c", "o", "n", "f", "i", "g", "_", "s", "l", "o", "t", "_", "d", "e", "f", "i", "n", "i", "t", "i", "o", "n">>, <<"c", "o", "n", "f", "i", "g", "_", "s", "l", "o", "t">> >>,
    << <<"d", "u", "e", "_", "d", "a", "t", "e">>, <<"d", "u", "e", "_", "d", "a", "t", "e">> >>,
    << <<"t", "a", "s", "k">>, <<"t", "a", "s", "k", "_", "c", "o", "d", "e">> >>,
    << <<"t", "a", "s", "k", "_", "c", "o", "d", "e">>, <<"t", "a", "s", "k", "_", "c", "o", "d", "e">> >>,
    << <<"p", "o", "s", "i", "t", "i", "o", "n">>, <<"p", "o", "s", "i", "t", "i", "o", "n">> >>,
    << <<"a", "i", "r", "c", "r", "a", "f", "t">>, <<"i", "n", "s", "t", "a", "l", "l", "a", "t", "i", "o", "n", "_", "s", "i", "t", "e">> >>,
    << <<"a", "i", "r", "c", "r", "a", "f", "t", "_", "d", "e", "s", "c", "r", "i", "p", "t", "i", "o", "n">>, <<"i", "n", "s", "t", "a", "l", "l", "a", "t", "i", "o", "n", "_", "s", "i", "t", "e">> >>,
    << <<"d", "u", "e">>, <<"d", "u", "e", "_", "d", "a", "t", "e">> >>,
    << <<"d", "u", "e", "_", "d", "t">>, <<"d", "u", "e", "_", "d", "a", "t", "e">> >>,
    << <<"d", "u", "e", "_", "d", "t", "_", "l", "o", "c", "a", "l">>, <<"d", "u", "e", "_", "d", "a", "t", "e">> >>,
    << <<"d", "u", "e", "_", "d", "t", "_", "u", "t", "c">>, <<"d", "u", "e", "_", "d", "a", "t", "e">> >> >>

DATE_COLUMN_HINT == <<"d", "a", "t", "e">>

C_due_date == <<"d", "u", "e", "_", "d", "a", "t", "e">>
C_days_until_due == <<"d", "a", "y", "s", "_", "u", "n", "t", "i", "l", "_", "d", "u", "e">>
C_is_overdue == <<"i", "s", "_", "o", "v", "e", "r", "d", "u", "e">>
C_days_overdue == <<"d", "a", "y", "s", "_", "o", "v", "e", "r", "d", "u", "e">>
C_installation_site == <<"i", "n", "s", "t", "a", "l", "l", "a", "t", "i", "o", "n", "_", "s", "i", "t", "e">>
C_config_slot == <<"c", "o", "n", "f", "i", "g", "_", "s", "l", "o", "t">>
C_position == <<"p", "o", "s", "i", "t", "i", "o", "n">>
C_aircraft_registration == <<"a", "i", "r", "c", "r", "a", "f", "t", "_", "r", "e", "g", "i", "s", "t", "r", "a", "t", "i", "o", "n">>
C_aircraft_type == <<"a", "i", "r", "c", "r", "a", "f", "t", "_", "t", "y", "p", "e">>
C_due_bucket == <<"d", "u", "e", "_", "b", "u", "c", "k", "e", "t">>

\* _NON_ALNUM.sub("_", s): every maximal run of non-alphanumerics becomes one "_"
sub_non_alnum(s) ==
    LET m == [i \in DOMAIN s |-> IF IsAlnum(s[i]) THEN s[i] ELSE "_"]
    IN  Pick(m, {i \in DOMAIN s : IsAlnum(s[i]) \/ i = 1 \/ IsAlnum(s[i - 1])})

\* _MULTI_UNDERSCORE.sub("_", s): every run of "_" becomes one "_"
sub_multi_underscore(s) ==
    Pick(s, {i \in DOMAIN s : s[i] # "_" \/ i = 1 \/ s[i - 1] # "_"})

canonicalise(column) ==
    strip_char(sub_multi_underscore(sub_non_alnum(str_lower(str_strip(column)))), "_")

\* COLUMN_ALIASES.get(canonical, canonical)
alias_get(canonical) ==
    LET K == {i \in DOMAIN COLUMN_ALIASES : COLUMN_ALIASES[i][1] = canonical}
    IN  IF K = {} THEN canonical ELSE COLUMN_ALIASES[SetMin(K)][2]

\* The target of every column, by position.
build_rename_map(columns) == [i \in DOMAIN columns |-> alias_get(canonicalise(columns[i]))]

(***************************************************************************)
(* _parse_datetime(series): pd.to_datetime(series, errors="coerce",        *)
(* utc=True), made naive.  pandas reads many more texts than a model can   *)
(* list; the model reads the texts named here and gives no value to any    *)
(* other text (a CASE without an arm for it):                              *)
(*   - "now" and "today": the wall clock;                                  *)
(*   - a text without a number, a month name or a weekday name: NaT;       *)
(*   - a date: YYYYMMDD; a year of four digits, a month and a day of one   *)
(*     or two digits, the year first or last, with one of "-", "/", "."    *)
(*     and " " between them; a month name, a day and a year; YYYY-MM, a    *)
(*     month name and a year, YYYY;                                        *)
(*   - a date of three parts, a space or a T, and a time of day HH:MM or   *)
(*     HH:MM:SS, alone or followed by Z or by an offset from UTC (+HH,     *)
(*     +HHMM, +HH:MM, - for +), which is taken off.                        *)
(* A text of these forms whose numbers name no day of the calendar or no   *)
(* time of day, or an instant outside the range of Timestamp, is NaT.      *)
(* The instants of the model are the ticks: an instant between two ticks   *)
(* has no value.  A two-digit year and a time of day without a date are    *)
(* read by pandas relative to the current year and day: they are left out. *)
(***************************************************************************)
SecondsPerDay == 86400

\* pd.Timestamp.min = 1677-09-21 00:12:43.145224193 and
\* pd.Timestamp.max = 2262-04-11 23:47:16.854775807
TimestampMinDay == DaysFromCivil(1677, 9, 21)
TimestampMinSecond == 764
TimestampMaxDay == DaysFromCivil(2262, 4, 11)
TimestampMaxSecond == 85636

in_timestamp_bounds(day, second) ==
    /\ day > TimestampMinDay \/ (day = TimestampMinDay /\ second >= TimestampMinSecond)
    /\ day < TimestampMaxDay \/ (day = TimestampMaxDay /\ second <= TimestampMaxSecond)

AllDigits(s) == s # <<>> /\ \A i \in DOMAIN s : IsDigit(s[i])
IsNumber(s, shortest, longest) == AllDigits(s) /\ Len(s) \in shortest..longest
RECURSIVE NatOf(_)
NatOf(s) ==
    IF s = <<>> THEN 0 ELSE NatOf(SubSeq(s, 1, Len(s) - 1)) * 10 + DigitVal(s[Len(s)])

\* The characters between the parts of a date and of a time of day.
DateSeparators == {"-", "/", ".", " ", ","}
TimeSeparators == {":"}

\* s begins and ends with a part, and its parts are one separator apart (a
\* comma may be followed by a space); a date has one kind of separator.
WellSeparated(s, seps) ==
    /\ s # <<>> /\ s[1] \notin seps
    /\ \A i \in DOMAIN s :
          s[i] \in seps => /\ i < Len(s)
                           /\ s[i + 1] \notin seps \/ (s[i] = "," /\ s[i + 1] = " ")
    /\ Cardinality(Range(s) \cap {"-", "/", ".", " "}) <= 1

\* The part of s that starts at position a: up to the next separator.
PartFrom(s, a, seps) ==
    SubSeq(s, a, CHOOSE b \in a..Len(s) :
                    /\ \A j \in a..b : s[j] \notin seps
                    /\ b = Len(s) \/ s[b + 1] \in seps)
PartsAt(s, starts, seps) ==
    [n \in 1..Cardinality(starts) |->
        PartFrom(s, CHOOSE i \in starts : Cardinality({x \in starts : x <= i}) = n, seps)]

\* the parts of s between separators
str_parts(s, seps) ==
    PartsAt(s, {i \in DOMAIN s : s[i] \notin seps /\ (i = 1 \/ s[i - 1] \in seps)}, seps)

MonthNames ==
    << <<"j", "a", "n", "u", "a", "r", "y">>, <<"f", "e", "b", "r", "u", "a", "r", "y">>, <<"m", "a", "r", "c", "h">>, <<"a", "p", "r", "i", "l">>, <<"m", "a", "y">>, <<"j", "u", "n", "e">>, <<"j", "u", "l", "y">>,
       <<"a", "u", "g", "u", "s", "t">>, <<"s", "e", "p", "t", "e", "m", "b", "e", "r">>, <<"o", "c", "t", "o", "b", "e", "r">>, <<"n", "o", "v", "e", "m", "b", "e", "r">>, <<"d", "e", "c", "e", "m", "b", "e", "r">> >>

\* the number of the month a word names in full or by its first three letters
\* (September also by "Sept"), 0 when it names none
month_of_name(word) ==
    MinOrZero({m \in 1..12 :
        \E name \in {MonthNames[m]} :
            [i \in DOMAIN word |-> ascii_lower_char(word[i])]
                \in {name, SubSeq(name, 1, 3), SubSeq(name, 1, IF m = 9 THEN 4 ELSE 3)}})

\* the month a part of a date names, by number or by name
month_number(part) == IF IsNumber(part, 1, 2) THEN NatOf(part) ELSE month_of_name(part)

NoDate == [ok |-> FALSE, day |-> 0]
CivilDate(y, m, d) ==
    IF m \in 1..12 /\ d \in 1..DaysInMonth(y, m)
    THEN [ok |-> TRUE, day |-> DaysFromCivil(y, m, d)] ELSE NoDate

\* the parts of a date text: eight digits are a year, a month and a day
date_parts(s) ==
    CASE IsNumber(s, 8, 8) -> <<SubSeq(s, 1, 4), SubSeq(s, 5, 6), SubSeq(s, 7, 8)>>
      [] ~IsNumber(s, 8, 8) /\ WellSeparated(s, DateSeparators) -> str_parts(s, DateSeparators)

\* what a part of a date is: a year of four digits ("y"), a number of one or
\* two digits ("n"), a month name ("m")
part_kind(part) ==
    IF IsNumber(part, 4, 4) THEN "y"
    ELSE IF IsNumber(part, 1, 2) THEN "n"
    ELSE IF month_of_name(part) # 0 THEN "m"
    ELSE "x"
date_kinds(p) == [i \in DOMAIN p |-> part_kind(p[i])]

\* the positions of the year, the month and the day among the parts p of a
\* date (0 for a part the text leaves out, which is 1): before a year the
\* month comes first unless the first number is above 12
date_order(p, kinds, seps) ==
    CASE kinds = <<"y", "n", "n">> /\ "," \notin seps -> <<1, 2, 3>>
      [] kinds = <<"n", "n", "y">> /\ "," \notin seps ->
            IF NatOf(p[1]) > 12 THEN <<3, 2, 1>> ELSE <<3, 1, 2>>
      [] kinds = <<"m", "n", "y">> /\ seps \subseteq {" ", ","} -> <<3, 1, 2>>
      [] kinds = <<"n", "m", "y">> /\ seps \subseteq {" ", ","} -> <<3, 2, 1>>
      [] kinds = <<"y", "m", "n">> /\ seps \subseteq {" ", ","} -> <<1, 2, 3>>
      [] kinds = <<"y", "n">> /\ seps = {"-"} /\ Len(p[2]) = 2 -> <<1, 2, 0>>
      [] kinds = <<"m", "y">> /\ seps = {" "} -> <<2, 1, 0>>
      [] kinds = <<"y">> -> <<1, 0, 0>>

date_at(p, order) ==
    CivilDate(NatOf(p[order[1]]),
              IF order[2] = 0 THEN 1 ELSE month_number(p[order[2]]),
              IF order[3] = 0 THEN 1 ELSE NatOf(p[order[3]]))
date_of_parts(p, seps) == date_at(p, date_order(p, date_kinds(p), seps))

\* dateutil reads a comma between a number of two or more digits and a digit
\* as a decimal point: "01,2024" is one number
decimal_comma(s) ==
    \E i \in DOMAIN s :
        /\ s[i] = "," /\ i > 2 /\ i < Len(s)
        /\ IsDigit(s[i - 2]) /\ IsDigit(s[i - 1]) /\ IsDigit(s[i + 1])

\* the date a text without a time of day names.  After a month name the
\* number "01,2024" is the day 1 and the text names no year: the date falls
\* in the year 1, outside the range of Timestamp.
date_of_text(s) ==
    IF decimal_comma(s)
    THEN CASE /\ date_kinds(date_parts(s)) = <<"m", "n", "y">>
              /\ Range(s) \cap DateSeparators \subseteq {" ", ","} -> NoDate
    ELSE date_of_parts(date_parts(s), Range(s) \cap DateSeparators)

\* the second of the day the parts HH:MM or HH:MM:SS name, -1 when their
\* numbers name no time of day
clock_field(parts, i) == IF i <= Len(parts) THEN NatOf(parts[i]) ELSE 0
second_of_parts(parts) ==
    CASE /\ Len(parts) \in {2, 3}
         /\ \A i \in DOMAIN parts : IsNumber(parts[i], IF i = 1 THEN 1 ELSE 2, 2) ->
            IF \A i \in DOMAIN parts : clock_field(parts, i) < (IF i = 1 THEN 24 ELSE 60)
            THEN clock_field(parts, 1) * 3600 + clock_field(parts, 2) * 60
                    + clock_field(parts, 3)
            ELSE 0 - 1
second_of_text(s) ==
    CASE WellSeparated(s, TimeSeparators) -> second_of_parts(str_parts(s, TimeSeparators))

\* the seconds east of UTC that the text after a time of day names
offset_digits(z) ==
    IF Len(z) = 6 THEN SubSeq(z, 2, 3) \o SubSeq(z, 5, 6)
    ELSE IF Len(z) = 3 THEN SubSeq(z, 2, 3) \o <<"0", "0">>
    ELSE SubSeq(z, 2, Len(z))
offset_seconds(sign, digits) ==
    CASE /\ sign \in {"+", "-"}
         /\ IsNumber(digits, 4, 4)
         /\ NatOf(SubSeq(digits, 1, 2)) < 24
         /\ NatOf(SubSeq(digits, 3, 4)) < 60 ->
            (IF sign = "-" THEN 0 - 1 ELSE 1)
                * (NatOf(SubSeq(digits, 1, 2)) * 3600 + NatOf(SubSeq(digits, 3, 4)) * 60)
utc_offset(z) ==
    CASE z \in {<<>>, <<"Z">>} -> 0
      [] Len(z) \in {3, 5} \/ (Len(z) = 6 /\ z[4] = ":") -> offset_seconds(z[1], offset_digits(z))

\* the position of the space or T before the time of day, 0 without a time
separator_before(s, colon) ==
    IF colon = {} THEN 0
    ELSE MaxOrZero({i \in 1..(SetMin(colon) - 1) : s[i] \in {" ", "T"}})
time_separator(s) == separator_before(s, {i \in DOMAIN s : s[i] = ":"})

\* the position where the offset from UTC starts in the text after the
\* separator, 0 without an offset; the time of day before it (a space may
\* stand between the two)
zone_start(t) == MinOrZero({i \in DOMAIN t : t[i] \in {"Z", "+", "-"}})
clock_text(t, zone) ==
    IF zone = 0 THEN t
    ELSE IF zone > 2 /\ t[zone - 1] = " " THEN SubSeq(t, 1, zone - 2)
    ELSE SubSeq(t, 1, zone - 1)

\* the tick of a second of the day; a time between two ticks has none
tick_of_second(second) ==
    CASE (second * TicksPerDay) % SecondsPerDay = 0 ->
            (second * TicksPerDay) \div SecondsPerDay

\* the instant UTC of a day and a second counted from its midnight, which may
\* lie in the day before or after
instant(day, second) ==
    IF in_timestamp_bounds(day, second)
    THEN Ts(day * TicksPerDay + tick_of_second(second)) ELSE NaT
timestamp_at(date, second, offset) ==
    IF ~date.ok \/ second < 0 THEN NaT
    ELSE instant(date.day + (second - offset) \div SecondsPerDay,
                 (second - offset) % SecondsPerDay)

\* a date of three parts (after a T: YYYY-MM-DD) and the text after the separator
timestamp_with_time(date_text, separator, t, zone) ==
    CASE /\ Len(date_parts(date_text)) = 3
         /\ ~decimal_comma(date_text)
         /\ separator = " " \/ Range(date_text) \cap DateSeparators = {"-"} ->
            timestamp_at(date_of_text(date_text), second_of_text(clock_text(t, zone)),
                         utc_offset(IF zone = 0 THEN <<>> ELSE SubSeq(t, zone, Len(t))))
timestamp_after(date_text, separator, t) ==
    timestamp_with_time(date_text, separator, t, zone_start(t))
timestamp_split(s, at) ==
    IF at = 0 THEN timestamp_at(date_of_text(s), 0, 0)
    ELSE timestamp_after(SubSeq(s, 1, at - 1), s[at], SubSeq(s, at + 1, Len(s)))
timestamp_stripped(s) == timestamp_split(s, time_separator(s))

\* a text holds a number
has_number(s) == \E i \in DOMAIN s : IsDigit(s[i]) \/ Char(s[i]) \in UnicodeNumericChars

\* the first letters of the names of the months and of the days of the week
NameStems ==
    {SubSeq(MonthNames[m], 1, 3) : m \in 1..12}
        \cup {<<"m", "o", "n">>, <<"t", "u", "e">>, <<"w", "e", "d">>, <<"t", "h", "u">>, <<"f", "r", "i">>, <<"s", "a", "t">>, <<"s", "u", "n">>}

\* a text without a number: NaT unless it names a month or a day of the week
timestamp_of_words(lowered) ==
    CASE \A stem \in NameStems : ~str_contains(lowered, stem) -> NaT

\* "now" is Timestamp.utcnow() and "today" Timestamp.today() of a machine that
\* keeps UTC, at the time of the call
timestamp_of_text(text, now) ==
    IF text \in {<<"n", "o", "w">>, <<"t", "o", "d", "a", "y">>} THEN Ts(now)
    ELSE IF has_number(text) THEN timestamp_stripped(str_strip(text))
    ELSE timestamp_of_words(str_lower(text))

\* pd.to_datetime of one value: a Timestamp is kept, a missing value is NaT
to_datetime(cell, now) ==
    CASE cell.k = "ts" -> cell
      [] cell.k = "null" -> NaT
      [] cell.k = "str" -> timestamp_of_text(cell.v, now)

\* pandas before 2.0 reads every text of a column by itself; pandas from 2.0 on
\* reads all of them in the format of the first.  The two agree on a column
\* whose texts with a number have one shape (the digits aside) and agree on
\* whether the day comes first; the model has no value for other columns.
leading_number(t) ==
    SubSeq(t, 1, MinOrZero({i \in DOMAIN t : i = Len(t) \/ ~IsDigit(t[i + 1])}))
day_first(number) == IsNumber(number, 1, 2) /\ NatOf(number) > 12
format_signature(s) ==
    <<[i \in DOMAIN s |-> IF IsDigit(s[i]) THEN "0" ELSE s[i]],
      day_first(leading_number(str_strip(s)))>>
one_format(series) ==
    \A a, b \in {series[r].v :
                    r \in {x \in DOMAIN series :
                            series[x].k = "str" /\ has_number(series[x].v)}} :
        format_signature(a) = format_signature(b)

parse_datetime(series, now) ==
    CASE one_format(series) -> [r \in DOMAIN series |-> to_datetime(series[r], now)]

\* _REGISTRATION_PATTERN = \b[A-Z]{2}-[A-Z0-9]{2,}\b : the length of its match
\* starting at position i of s, 0 when it does not match there.
IsUpperOrDigit(c) == IsUpper(c) \/ IsDigit(c)
RunLen(s, i) ==
    LET stop == {j \in i..Len(s) : ~IsUpperOrDigit(s[j])}
    IN  IF i > Len(s) THEN 0
        ELSE IF stop = {} THEN Len(s) - i + 1 ELSE SetMin(stop) - i
registration_match_len(s, i) ==
    IF i + 4 > Len(s) THEN 0
    ELSE IF ~(IsUpper(s[i]) /\ IsUpper(s[i + 1]) /\ s[i + 2] = "-") THEN 0
    ELSE IF i > 1 /\ IsWord(s[i - 1]) THEN 0
    ELSE LET run == RunLen(s, i + 3)
         IN  IF run < 2 THEN 0
             ELSE IF i + 3 + run <= Len(s) /\ IsWord(s[i + 3 + run]) THEN 0
             ELSE 3 + run

\* _REGISTRATION_PATTERN.search(text): the leftmost match, <<>> when there is none
registration_search(s) ==
    LET K == {i \in DOMAIN s : registration_match_len(s, i) > 0}
    IN  IF K = {} THEN <<>>
        ELSE SubSeq(s, SetMin(K), SetMin(K) + registration_match_len(s, SetMin(K)) - 1)

\* "%Y-%m-%d" of a timestamp
pad(n, width) ==
    LET s == str_of_nat(n)
    IN  [i \in 1..(width - Len(s)) |-> "0"] \o s

civil_text(z, era, doe, yoe, doy, mp, m) ==
    pad(yoe + era * 400 + (IF m <= 2 THEN 1 ELSE 0), 4) \o <<"-">> \o pad(m, 2)
        \o <<"-">> \o pad(doy - (153 * mp + 2) \div 5 + 1, 2)
civil_of_month(z, era, doe, yoe, doy, mp) ==
    civil_text(z, era, doe, yoe, doy, mp, IF mp < 10 THEN mp + 3 ELSE mp - 9)
civil_of_year(z, era, doe, yoe, doy) == civil_of_month(z, era, doe, yoe, doy, (5 * doy + 2) \div 153)
civil_of_era(z, era, doe, yoe) ==
    civil_of_year(z, era, doe, yoe, doe - (365 * yoe + yoe \div 4 - yoe \div 100))
civil_of_day(z, era, doe) ==
    civil_of_era(z, era, doe,
                 (doe - doe \div 1460 + doe \div 36524 - doe \div 146096) \div 365)
civil_of(z, era) == civil_of_day(z, era, z - era * 146097)
strftime_date(t) ==
    civil_of((t \div TicksPerDay) + 719468, ((t \div TicksPerDay) + 719468) \div 146097)

\* "%H:%M:%S" of the second of a day
strftime_time(second) ==
    pad(second \div 3600, 2) \o <<":">> \o pad((second % 3600) \div 60, 2)
        \o <<":">> \o pad(second % 60, 2)

\* the second of the day of a tick, for a tick that falls on a whole second
second_of_tick(tick) ==
    CASE (tick * SecondsPerDay) % TicksPerDay = 0 -> (tick * SecondsPerDay) \div TicksPerDay

\* str(n) of an int
str_of_int(n) == IF n < 0 THEN <<"-">> \o str_of_nat(0 - n) ELSE str_of_nat(n)

\* str(value) of a cell: its text; "nan", "None", "NaT" and "<NA>" for the
\* four missing values; str() of an int, of a bool, of a float with one
\* decimal ("7.0") and of a Timestamp ("2024-09-01 00:00:00")
str_of_cell(value) ==
    CASE value.k = "null" ->
            << <<"n", "a", "n">>, <<"N", "o", "n", "e">>, <<"N", "a", "T">>, <<"<", "N", "A", ">">> >>[value.v + 1]
      [] value.k = "str" -> value.v
      [] value.k = "int" -> str_of_int(value.v)
      [] value.k = "float1" ->
            (IF value.v < 0 THEN <<"-">> ELSE <<>>)
                \o str_of_nat((IF value.v < 0 THEN 0 - value.v ELSE value.v) \div 10)
                \o <<".">>
                \o str_of_nat((IF value.v < 0 THEN 0 - value.v ELSE value.v) % 10)
      [] value.k = "bool" -> IF value.v THEN <<"T", "r", "u", "e">> ELSE <<"F", "a", "l", "s", "e">>
      [] value.k = "ts" ->
            strftime_date(value.v) \o <<" ">> \o strftime_time(second_of_tick(value.v % TicksPerDay))

\* lines 63-66: "" for None and NaN, else the match in str(value); str() of
\* NaT and of pd.NA holds no match
extract_registration(value) ==
    IF value.k = "null" THEN <<>> ELSE registration_search(str_of_cell(value))

\* text.split(" - ", 1)[0].strip() of the text before the first " - "
type_prefix(text, at) == IF at = 0 THEN <<>> ELSE str_strip(SubSeq(text, 1, at - 1))

\* lines 70-76
extract_aircraft_type(value) ==
    IF value.k = "null" THEN <<>>
    ELSE type_prefix(str_of_cell(value), str_find(str_of_cell(value), <<" ", "-", " ">>))

B_Unknown == <<"U", "n", "k", "n", "o", "w", "n">>
B_Overdue == <<"O", "v", "e", "r", "d", "u", "e">>
\* "<=" stands for the one character U+2264 of the labels
B_Due7 == <<"D", "u", "e", " ", "<=", " ", "7", "d">>
B_Due30 == <<"D", "u", "e", " ", "<=", " ", "3", "0", "d">>
B_Due90 == <<"D", "u", "e", " ", "<=", " ", "9", "0", "d">>
B_DueLater == <<"D", "u", "e", " ", ">", " ", "9", "0", "d">>

\* compute_due_bucket with the 30-day bound open: exactly 30 days falls in the next bucket
compute_due_bucket_open30(days_until_due) ==
    IF days_until_due.k = "null" THEN B_Unknown
    ELSE IF days_until_due.v < 0 THEN B_Overdue
    ELSE IF days_until_due.v <= 7 * TicksPerDay THEN B_Due7
    ELSE IF days_until_due.v < 30 * TicksPerDay THEN B_Due30
    ELSE IF days_until_due.v <= 90 * TicksPerDay THEN B_Due90
    ELSE B_DueLater

\* days_until_due is a cell: Null (NaN) or Days(n), n / TicksPerDay days
compute_due_bucket(days_until_due) ==
    IF days_until_due.k = "null" THEN B_Unknown
    ELSE IF days_until_due.v < 0 THEN B_Overdue
    ELSE IF days_until_due.v <= 7 * TicksPerDay THEN B_Due7
    ELSE IF days_until_due.v <= 30 * TicksPerDay THEN B_Due30
    ELSE IF days_until_due.v <= 90 * TicksPerDay THEN B_Due90
    ELSE B_DueLater

(***************************************************************************)
(* Tables.  A table is [cols, index, rows]: the column labels in order,    *)
(* the row labels (pandas' index) in order, and the rows, each the         *)
(* sequence of its cells in column order.                                  *)
(***************************************************************************)
Frame(cols, index, rows) == [cols |-> cols, index |-> index, rows |-> rows]

ColPositions(cols, name) == {i \in DOMAIN cols : cols[i] = name}
HasColumn(cols, name) == ColPositions(cols, name) # {}
\* a label that two or more columns carry: df[name] is then a table
Repeated(cols, name) == Cardinality(ColPositions(cols, name)) > 1
\* df[name] for a label that occurs once: the cells of that column, by row
Column(frame, name) ==
    CASE ~Repeated(frame.cols, name) ->
        [r \in DOMAIN frame.rows |-> frame.rows[r][SetMin(ColPositions(frame.cols, name))]]

\* df[name] = values: in place when the label exists, else a new last column
set_column(frame, name, values) ==
    IF HasColumn(frame.cols, name)
    THEN [frame EXCEPT !.rows =
            [r \in DOMAIN frame.rows |->
                [c \in DOMAIN frame.cols |->
                    IF frame.cols[c] = name THEN values[r] ELSE frame.rows[r][c]]]]
    ELSE [frame EXCEPT !.cols = Append(frame.cols, name),
                       !.rows = [r \in DOMAIN frame.rows |-> Append(frame.rows[r], values[r])]]

\* df.dropna(subset=[name]): the rows with no missing cell under name
dropna_subset(frame, name) ==
    LET K == {r \in DOMAIN frame.rows :
                \A c \in ColPositions(frame.cols, name) : frame.rows[r][c].k # "null"}
    IN  [frame EXCEPT !.index = Pick(frame.index, K), !.rows = Pick(frame.rows, K)]

\* df.empty
frame_empty(frame) == Len(frame.rows) = 0 \/ Len(frame.cols) = 0

\* series.dtype == "datetime64[ns]": every cell a Timestamp or NaT.  A column
\* that holds NaN, None or pd.NA, beside Timestamps or alone, is an object or
\* float64 column.
is_datetime64(frame, c) ==
    \A r \in DOMAIN frame.rows : frame.rows[r][c].k = "ts" \/ frame.rows[r][c] = NaT

\* lines 112-114: working[column] is a DataFrame, which has no dtype, when the
\* label of a date column occurs twice
date_loop_raises(cols) ==
    \E i, j \in DOMAIN cols :
        i # j /\ cols[i] = cols[j] /\ str_contains(cols[i], DATE_COLUMN_HINT)

\* lines 112-114: the cells of the column at position c, by row
column_at(frame, c) == [r \in DOMAIN frame.rows |-> frame.rows[r][c]]
parse_date_columns(frame, now) ==
    [frame EXCEPT !.rows =
        [r \in DOMAIN frame.rows |->
            [c \in DOMAIN frame.cols |->
                IF str_contains(frame.cols[c], DATE_COLUMN_HINT) /\ ~is_datetime64(frame, c)
                THEN parse_datetime(column_at(frame, c), now)[r]
                ELSE frame.rows[r][c]]]]

\* lines 116-120
due_date_step(frame, now) ==
    IF ~HasColumn(frame.cols, C_due_date)
    THEN set_column(frame, C_due_date, [r \in DOMAIN frame.rows |-> NaT])
    ELSE dropna_subset(
            set_column(frame, C_due_date, parse_datetime(Column(frame, C_due_date), now)),
            C_due_date)

\* line 122: (due_date - reference_date).dt.total_seconds() / 86400.0
due_delta(due, reference_date) ==
    IF due.k = "null" THEN Null ELSE Days(due.v - reference_date)

\* line 124 with <= for <
is_overdue_or_due_now(delta) == delta.k # "null" /\ delta.v <= 0

\* line 124: due_delta < 0 (NaN < 0 is False)
is_overdue(delta) == delta.k # "null" /\ delta.v < 0

\* days_overdue without the negation of due_delta
days_overdue_unnegated(delta) == IF is_overdue(delta) THEN Days(delta.v) ELSE Days(0)

\* line 125: np.where(is_overdue, -due_delta, 0.0)
days_overdue(delta) == IF is_overdue(delta) THEN Days(0 - delta.v) ELSE Days(0)

\* lines 127-129: working.get("installation_site") for a label that occurs
\* once, "" for every row without it
site_source(frame) ==
    IF HasColumn(frame.cols, C_installation_site)
    THEN Column(frame, C_installation_site)
    ELSE [r \in DOMAIN frame.rows |-> Str(<<>>)]

\* lines 137-147: config_series.where(~missing_mask, position_series) at a row
\* of missing_mask, where the condition is False, is the cell of position_series
\* (a label position that occurs once)
fallback_source(frame) ==
    IF HasColumn(frame.cols, C_position)
    THEN Column(frame, C_position)
    ELSE [r \in DOMAIN frame.rows |-> Str(<<>>)]

\* lines 131-148
aircraft_registration(frame) ==
    LET site == site_source(frame)
        first == [r \in DOMAIN frame.rows |-> extract_registration(site[r])]
        fallback == fallback_source(frame)
    IN  [r \in DOMAIN frame.rows |->
            IF first[r] = <<>> THEN Str(extract_registration(fallback[r])) ELSE Str(first[r])]

derive_fields(frame, reference_date) ==
    LET due == Column(frame, C_due_date)
        delta == [r \in DOMAIN frame.rows |-> due_delta(due[r], reference_date)]
        f1 == set_column(frame, C_days_until_due, delta)
        f2 == set_column(f1, C_is_overdue, [r \in DOMAIN frame.rows |-> Bool(is_overdue(delta[r]))])
        f3 == set_column(f2, C_days_overdue, [r \in DOMAIN frame.rows |-> days_overdue(delta[r])])
        site == site_source(f3)
        f4 == set_column(f3, C_aircraft_registration, aircraft_registration(f3))
        f5 == set_column(f4, C_aircraft_type,
                [r \in DOMAIN frame.rows |-> Str(extract_aircraft_type(site[r]))])
    IN  set_column(f5, C_due_bucket,
            [r \in DOMAIN frame.rows |-> Str(compute_due_bucket(delta[r]))])

Ok(frame) == [status |-> "ok", cols |-> frame.cols, index |-> frame.index, rows |-> frame.rows]
Raised == [status |-> "raised", cols |-> <<>>, index |-> <<>>, rows |-> <<>>]

\* the labels lines 122-150 assign
DerivedLabels ==
    {C_days_until_due, C_is_overdue, C_days_overdue, C_aircraft_registration,
     C_aircraft_type, C_due_bucket}

\* line 136: missing_mask.any(), some row without a registration in its site
missing_any(frame) ==
    \E r \in DOMAIN frame.rows : extract_registration(site_source(frame)[r]) = <<>>

\* Lines 131 and 147 on a table with a repeated label.  With two columns
\* installation_site, site_source is a table, apply gives one value per column
\* and line 131 cannot assign these to the rows (ValueError).  With two columns
\* config_slot or two columns position, where() of line 147, which runs when a
\* row has no registration, cannot align a table with a column (ValueError,
\* NotImplementedError).  A table whose derived labels occur twice, a table
\* left without rows under two columns installation_site, and a table with both
\* config_slot and position repeated have no value here.
derive_raises(frame) ==
    CASE \A name \in DerivedLabels : ~Repeated(frame.cols, name) ->
        IF Repeated(frame.cols, C_installation_site)
        THEN (CASE Len(frame.rows) > 0 -> TRUE)
        ELSE IF ~missing_any(frame) THEN FALSE
        ELSE (CASE ~(Repeated(frame.cols, C_config_slot) /\ Repeated(frame.cols, C_position)) ->
                Repeated(frame.cols, C_config_slot) \/ Repeated(frame.cols, C_position))

(***************************************************************************)
(* The objects behind the names of a function body.  pandas keeps a table  *)
(* in an object; a name is bound to an object, and an assignment into a    *)
(* table (frame[label] = v, frame.loc[...] = v, a method called with       *)
(* inplace=True) writes into the object its name is bound to at that       *)
(* moment.  The body of a function is the sequence of its statements that  *)
(* bind a name to a table or write into one, each with its line:           *)
(*   New(t, s)   t = a new table made from s: s.copy(), s.rename(...),     *)
(*               s.dropna(...), s.assign(...), s[mask], s.sort_values(...),*)
(*               s.head(n), s.reset_index(...), s.groupby(...).agg(...)    *)
(*   Make(t)     t = pd.DataFrame(...)                                    *)
(*   Same(t, s)  t = s, a column of s or s.groupby(...): no new table      *)
(*   Write(t)    an assignment into the table t                            *)
(* The caller's table is object 1, bound to the parameter df.              *)
(***************************************************************************)
Names ==
    {"df", "working", "grouped", "result", "filtered", "summary", "site_source",
     "part_series", "serial_series", "overdue_mask", "days_until_due", "days_overdue",
     "cohort_all", "cohort_overdue", "cohort_30", "cohort_90", "return"}

New(target, source, line) == [op |-> "new", target |-> target, source |-> source, line |-> line]
Make(target, line) == [op |-> "make", target |-> target, source |-> target, line |-> line]
Same(target, source, line) == [op |-> "same", target |-> target, source |-> source, line |-> line]
Write(target, line) == [op |-> "write", target |-> target, source |-> target, line |-> line]

\* on entry df is bound to the caller's object, object 1; no other name is
\* bound (0) and nothing is written
Heap0 ==
    [env |-> [n \in Names |-> IF n = "df" THEN 1 ELSE 0],
     next |-> 2,
     written |-> {}]

\* a method that returns its own table instead of a new one
new_object_shared(heap, source) == heap.env[source]

\* copy(), rename(), dropna(), assign(), frame[mask], sort_values(), head(),
\* reset_index() and agg() return a table in an object of its own
new_object(heap, source) == heap.next

exec(heap, s) ==
    CASE s.op = "new" ->
            [heap EXCEPT !.env[s.target] = new_object(heap, s.source), !.next = heap.next + 1]
      [] s.op = "make" ->
            [heap EXCEPT !.env[s.target] = heap.next, !.next = heap.next + 1]
      [] s.op = "same" ->
            [heap EXCEPT !.env[s.target] = heap.env[s.source]]
      [] s.op = "write" ->
            [heap EXCEPT !.written = heap.written \cup {heap.env[s.target]}]

RECURSIVE run(_, _)
run(heap, statements) ==
    IF statements = <<>> THEN heap
    ELSE run(exec(heap, Head(statements)), Tail(statements))

\* some statement of the body wrote into the caller's table
input_written(statements) ==
    \E executed \in {statements} : 1 \in run(Heap0, executed).written

\* A table some statement wrote into: of what it holds then the model keeps
\* only that it is no longer the table as the caller built it.
WrittenInto(table) ==
    [f \in DOMAIN table \cup {"written"} |-> IF f = "written" THEN TRUE ELSE table[f]]

\* the caller's table when the call has returned or raised
caller_table(table, statements) ==
    IF input_written(statements) THEN WrittenInto(table) ELSE table

\* lines 112-114: the position of the first column at which the date loop
\* raises (0 when it does not), and the columns it assigns before that
first_raising(cols) ==
    MinOrZero({i \in DOMAIN cols :
        /\ \E j \in DOMAIN cols : j # i /\ cols[j] = cols[i]
        /\ str_contains(cols[i], DATE_COLUMN_HINT)})
parsed_before(working, c, stop) ==
    /\ stop = 0 \/ c < stop
    /\ str_contains(working.cols[c], DATE_COLUMN_HINT)
    /\ ~is_datetime64(working, c)

\* line 108: working = df.rename(columns=rename_map).copy()
rename_copy(df) == Frame(build_rename_map(df.cols), df.index, df.rows)

\* prepare_component_dataframe(df, reference_date=reference_date): the table
\* returned, or Raised when the call ends in an exception
prepare_component_dataframe(df, reference_date, now) ==
    IF frame_empty(df) THEN Ok(df)
    ELSE LET working == rename_copy(df)
         IN  IF date_loop_raises(working.cols) THEN Raised
             ELSE IF derive_raises(due_date_step(parse_date_columns(working, now), now))
                  THEN Raised
             ELSE Ok(derive_fields(due_date_step(parse_date_columns(working, now), now), reference_date))

\* The statements of prepare_component_dataframe that ran in the call on df
\* that ended with out.  Line 114 runs once for every date column the loop
\* reaches that is not datetime64; the body ends at line 114 when the loop
\* raises, at line 131 under two columns installation_site and at line 147 when
\* where() raises; line 148 runs when line 136 finds a row without registration.
date_loop_statements(working, stop) ==
    [i \in 1..Cardinality({c \in DOMAIN working.cols : parsed_before(working, c, stop)})
        |-> Write("working", 114)]

derive_statements(working, out) ==
    (IF HasColumn(working.cols, C_due_date)
     THEN << Write("working", 119), New("working", "working", 120) >>
     ELSE << Write("working", 117) >>)
    \o << Write("working", 123), Write("working", 124), Write("working", 125),
          Same("site_source", "working", 127) >>
    \o (IF Repeated(working.cols, C_installation_site) THEN <<>>
        ELSE << Write("working", 131), Write("working", 132) >>
             \o (IF out.status = "raised" THEN <<>>
                 ELSE (IF missing_any(out) THEN << Write("working", 148) >> ELSE <<>>)
                      \o << Write("working", 150), Same("return", "working", 152) >>))

\* lines 112-152 on the renamed copy; stop is the position at which the date
\* loop raises (0 when it does not)
working_statements(working, stop, out) ==
    date_loop_statements(working, stop)
    \o (IF stop # 0 THEN <<>> ELSE derive_statements(working, out))

prepare_statements(df, out) ==
    IF frame_empty(df) THEN << New("return", "df", 105) >>
    ELSE << New("working", "df", 108) >>
         \o working_statements(rename_copy(df), first_raising(build_rename_map(df.cols)), out)

(***************************************************************************)
(* The tables prepare_component_dataframe is called with: every sequence   *)
(* of at most MaxRows rows of RowPool under each header of HeaderVariants.  *)
(* A header names, for each column, its label and the field of the row it  *)
(* shows.                                                                  *)
(***************************************************************************)
RefDay == Midnight(2024, 9, 1)
RefDates == {RefDay, RefDay + 1}

Row(due, due2, site, cfg, pos, task) ==
    [due |-> due, due2 |-> due2, site |-> site, cfg |-> cfg, pos |-> pos, task |-> task]

RowPool == {
    Row(Str(<<"2", "0", "2", "5", "-", "0", "1", "-", "1", "5">>), Str(<<"2", "0", "2", "4", "-", "0", "1", "-", "1", "5">>), Str(<<"B", "O", "E", "I", "N", "G", " ", "7", "8", "7", "-", "8", " ", "-", " ", "E", "T", "-", "A", "T", "G">>),
        Str(<<"7", "6", "-", "1", "1", "-", "0", "0", "-", "Z", "A", "2", "-", "1", "1", "-", "0", "0", "1", "-", "H", "T", "C">>), Str(<<"E", "T", "-", "A", "T", "G">>), Str(<<"T", "S", "F", "N", "8", "0", "0", "2", "C", "5", "F", "M">>)),
    Row(Str(<<"2", "0", "2", "4", "-", "1", "0", "-", "0", "5">>), Str(<<"2", "0", "2", "4", "-", "1", "0", "-", "0", "5">>), Str(<<"B", "O", "E", "I", "N", "G", " ", "7", "8", "7", "-", "8", " ", "-", " ", "E", "T", "-", "A", "O", "T">>),
        Str(<<"3", "2", "-", "1", "1", "-", "0", "0", "-", "Z", "A", "7", "-", "3", "1", "-", "0", "0", "1", "-", "H", "T", "C">>), Str(<<"E", "T", "-", "A", "O", "T">>), Str(<<"T", "S", "F", "N", "8", "0", "0", "A", "Z", "W", "9", "3">>)),
    Row(Str(<<"2", "0", "2", "4", "-", "0", "8", "-", "0", "1">>), Null, Str(<<"B", "O", "E", "I", "N", "G", " ", "7", "8", "7", "-", "8", " ", "-", " ", "E", "T", "-", "A", "O", "T">>),
        Str(<<"3", "2", "-", "1", "1", "-", "0", "0", "-", "Z", "A", "7", "-", "3", "1", "-", "0", "0", "1", "-", "H", "T", "C">>), Str(<<"E", "T", "-", "A", "O", "T">>), Str(<<"T", "S", "F", "N", "8", "0", "0", "A", "Z", "W", "9", "3">>)),
    Row(Str(<<"N", "/", "A">>), Str(<<"2", "0", "2", "4", "-", "0", "9", "-", "0", "8">>), Str(<<"E", "T", "-", "A", "R", "E">>),
        Str(<<"E", "T", "-", "A", "V", "B">>), Null, Null),
    Row(Null, Str(<<"2", "0", "2", "4", "-", "0", "2", "-", "3", "0">>), Null,
        Str(<<"S", "L", "O", "T", " ", "E", "T", "-", "A", "V", "B">>), Str(<<>>), Str(<<"T", "1">>)),
    Row(Ts(RefDay + 7 * TicksPerDay + 1), Ts(RefDay), Str(<<"A", "I", "R", "B", "U", "S", " ", "A", "3", "5", "0", " ", "-", " ", "M", "S", "N", " ", "4", "2">>),
        Str(<<"E", "T", "-", "A", "V", "B">>), Str(<<"P", "O", "S", " ", "E", "T", "-", "A", "X", "K", " ", "L">>), Str(<<"T", "1">>)),
    Row(Str(<<"2", "0", "2", "4", "-", "0", "9", "-", "0", "1">>), Str(<<"s", "o", "o", "n">>), Str(<<"x", "E", "T", "-", "A", "T", "G", " ", "-", " ", "E", "T", "-", "A", "T", "G", "x">>),
        Str(<<"E", "T", "-", "A", "V", "B", " ", "1", "2">>), Str(<<"E", "T", "-", "A">>), Str(<<"T", "2">>)),
    Row(Str(<<"2", "0", "2", "4", "-", "1", "3", "-", "0", "1">>), Str(<<"2", "0", "2", "4", "-", "1", "0", "-", "0", "1">>), Str(<<"e", "t", "-", "a", "t", "g", " ", "-", " ", "B", "7", "3", "7">>),
        Null, Str(<<"E", "T", "-", "B", "7", "_">>), Null) }

Col(label, field) == [label |-> label, field |-> field]

HeaderVariants == {
    << Col(<<"I", "n", "s", "t", "a", "l", "l", "e", "d", " ", "o", "n">>, "site"), Col(<<"C", "o", "n", "f", "i", "g", " ", "s", "l", "o", "t">>, "cfg"),
       Col(<<"D", "U", "E", "_", "D", "A", "T", "E">>, "due"), Col(<<"P", "O", "S", "I", "T", "I", "O", "N">>, "pos") >>,
    << Col(<<"I", "n", "s", "t", "a", "l", "l", "e", "d", " ", "o", "n">>, "site"), Col(<<"C", "o", "n", "f", "i", "g", " ", "s", "l", "o", "t">>, "cfg"),
       Col(<<"P", "O", "S", "I", "T", "I", "O", "N">>, "pos") >>,
    << Col(<<"D", "U", "E", "_", "D", "A", "T", "E">>, "due"), Col(<<"D", "u", "e", " ", "D", "a", "t", "e">>, "due2"),
       Col(<<"I", "n", "s", "t", "a", "l", "l", "e", "d", " ", "o", "n">>, "site") >>,
    << Col(<<"T", "A", "S", "K">>, "task"), Col(<<"T", "a", "s", "k", " ", "C", "o", "d", "e">>, "cfg"), Col(<<"D", "U", "E", "_", "D", "A", "T", "E">>, "due") >>,
    << Col(<<" ", "D", "u", "e", " ", "D", "t", " ", "(", "U", "T", "C", ")", " ">>, "due"), Col(<<"I", "n", "s", "t", "a", "l", "l", " ", "D", "a", "t", "e">>, "due2"),
       Col(<<"C", "o", "n", "f", "i", "g", " ", "S", "l", "o", "t", " ", "D", "e", "f", "i", "n", "i", "t", "i", "o", "n">>, "cfg"), Col(<<"P", "o", "s", "i", "t", "i", "o", "n">>, "pos") >>,
    << Col(<<"i", "n", "s", "t", "a", "l", "l", "a", "t", "i", "o", "n", "_", "s", "i", "t", "e">>, "site"), Col(<<"c", "o", "n", "f", "i", "g", "_", "s", "l", "o", "t">>, "cfg"),
       Col(<<"d", "u", "e", "_", "d", "a", "t", "e">>, "due"), Col(<<"p", "o", "s", "i", "t", "i", "o", "n">>, "pos") >>,
    \* two columns that canonicalise to installation_site
    << Col(<<"I", "n", "s", "t", "a", "l", "l", "e", "d", " ", "o", "n">>, "site"), Col(<<"A", "i", "r", "c", "r", "a", "f", "t">>, "pos") >>,
    \* two columns that canonicalise to config_slot
    << Col(<<"C", "o", "n", "f", "i", "g", " ", "s", "l", "o", "t">>, "cfg"), Col(<<"C", "o", "n", "f", "i", "g", " ", "S", "l", "o", "t", " ", "D", "e", "f", "i", "n", "i", "t", "i", "o", "n">>, "pos"),
       Col(<<"I", "n", "s", "t", "a", "l", "l", "e", "d", " ", "o", "n">>, "site"), Col(<<"D", "U", "E", "_", "D", "A", "T", "E">>, "due") >>,
    \* two columns that canonicalise to position
    << Col(<<"P", "O", "S", "I", "T", "I", "O", "N">>, "pos"), Col(<<"P", "o", "s", "i", "t", "i", "o", "n">>, "cfg"),
       Col(<<"I", "n", "s", "t", "a", "l", "l", "e", "d", " ", "o", "n">>, "site"), Col(<<"D", "U", "E", "_", "D", "A", "T", "E">>, "due") >> }

RowSeqs == UNION {[1..n -> RowPool] : n \in 0..MaxRows}

MakeFrame(header, rows) ==
    Frame([c \in DOMAIN header |-> header[c].label],
          [r \in DOMAIN rows |-> r],
          [r \in DOMAIN rows |-> [c \in DOMAIN header |-> rows[r][header[c].field]]])

PrepInputs == {MakeFrame(h, rs) : h \in HeaderVariants, rs \in RowSeqs}

NoResult == [status |-> "none", cols |-> <<>>, index |-> <<>>, rows |-> <<>>]

(***************************************************************************)
(* SpecPrep: one call of prepare_component_dataframe on a table, then a    *)
(* second call on the table the first returned, with the same reference    *)
(* date.                                                                   *)
(***************************************************************************)
NoFrame == Frame(<<>>, <<>>, <<>>)

\* The variables of the other specifications stay at these values.
PrepIdle ==
    /\ p_in = NoFrame
    /\ p_ref = 0
    /\ p_out = NoResult
    /\ p_out2 = NoResult
    /\ p_pc = "idle"
BucketIdle == b_in = Null /\ b_out = <<>> /\ b_pc = "idle"
HeaderIdle == h_in = <<>> /\ h_out = <<>> /\ h_pc = "idle"
LoaderIdle == l_in = NoFrame /\ l_out = NoFrame /\ l_pc = "idle"
AggIdle ==
    /\ g_in = NoFrame
    /\ g_kind = "none"
    /\ g_missing = <<>>
    /\ g_topn = 0
    /\ g_today = 0
    /\ g_fn = "none"
    /\ g_summary = <<>>
    /\ g_out = NoResult
    /\ g_pc = "idle"
ClockIdle == w_in = NoFrame /\ w_ref = Null /\ w_now = 0 /\ w_outs = <<>>
SeriesIdle == s_in = NoFrame /\ s_freq = "none" /\ s_out = <<>> /\ s_pc = "idle"
FormatIdle == f_in = Null /\ f_out = <<>> /\ f_pc = "idle"
AppIdle ==
    /\ a_entry = "none"
    /\ a_source = "none"
    /\ a_sheet = NoFrame
    /\ a_today = 0
    /\ a_pc = "idle"
    /\ a_reportlab = FALSE
    /\ a_error = "none"
    /\ a_excel = "absent"
    /\ a_pdf = "absent"
    /\ a_stdout = <<>>

InitPrep ==
    /\ p_in \in PrepInputs
    /\ p_ref \in RefDates
    /\ p_out = NoResult
    /\ p_out2 = NoResult
    /\ p_pc = "start"
    /\ BucketIdle /\ HeaderIdle /\ LoaderIdle /\ AppIdle /\ AggIdle /\ ClockIdle
       /\ SeriesIdle /\ FormatIdle

CallPrepare ==
    /\ p_pc = "start"
    /\ p_out' = prepare_component_dataframe(p_in, p_ref, w_now)
    /\ p_in' = caller_table(p_in, prepare_statements(p_in, p_out'))
    /\ p_pc' = "once"
    /\ UNCHANGED <<p_ref, p_out2, bucketVars, headerVars, loaderVars, appVars, aggVars,
                 clockVars, seriesVars, formatVars>>

CallPrepareAgain ==
    /\ p_pc = "once"
    /\ p_out.status = "ok"
    /\ p_out2' = prepare_component_dataframe(Frame(p_out.cols, p_out.index, p_out.rows), p_ref, w_now)
    /\ p_out' = caller_table(p_out,
                    prepare_statements(Frame(p_out.cols, p_out.index, p_out.rows), p_out2'))
    /\ p_pc' = "twice"
    /\ UNCHANGED <<p_in, p_ref, bucketVars, headerVars, loaderVars, appVars, aggVars,
                 clockVars, seriesVars, formatVars>>

NextPrep == CallPrepare \/ CallPrepareAgain

SpecPrep == InitPrep /\ [][NextPrep]_vars

(***************************************************************************)
(* SpecBucket: _compute_due_bucket applied to one value.                   *)
(***************************************************************************)
MaxDays == 92

BucketInputs == {Null} \cup {Days(n) : n \in (0 - 2 * TicksPerDay)..(MaxDays * TicksPerDay)}

InitBucket ==
    /\ b_in \in BucketInputs
    /\ b_out = <<>>
    /\ b_pc = "start"
    /\ PrepIdle /\ HeaderIdle /\ LoaderIdle /\ AppIdle /\ AggIdle /\ ClockIdle
       /\ SeriesIdle /\ FormatIdle

CallComputeDueBucket ==
    /\ b_pc = "start"
    /\ b_out' = compute_due_bucket(b_in)
    /\ b_pc' = "done"
    /\ UNCHANGED <<b_in, prepVars, headerVars, loaderVars, appVars, aggVars, clockVars,
                 seriesVars, formatVars>>

NextBucket == CallComputeDueBucket

SpecBucket == InitBucket /\ [][NextBucket]_vars

(***************************************************************************)
(* Claims about prepare_component_dataframe (SpecPrep).                    *)
(***************************************************************************)
Prepared == p_pc \in {"once", "twice"} /\ p_out.status = "ok"

\* The due-date field of row r of the caller's table: its cell under the
\* first column that canonicalises to due_date, missing when there is none.
DueField(df, r) ==
    LET K == ColPositions(build_rename_map(df.cols), C_due_date)
    IN  IF K = {} THEN Null ELSE df.rows[r][SetMin(K)]

\* The cell of row r of a table under the first column of a label, missing
\* when the column is absent.
CellOr(frame, name, r) ==
    IF HasColumn(frame.cols, name)
    THEN frame.rows[r][SetMin(ColPositions(frame.cols, name))] ELSE Null

\* C1: for every input table and reference date, with or without a column that
\* canonicalises to due_date, an input row is in the output of
\* prepare_component_dataframe if and only if its due-date field parses to a
\* non-null timestamp.
C1_RowKeptIffDueDateParses ==
    Prepared =>
        \A r \in DOMAIN p_in.rows :
            (p_in.index[r] \in Range(p_out.index))
                <=> (to_datetime(DueField(p_in, r), w_now).k # "null")

\* The registration the specification describes: the match in installation_site,
\* else the match in config_slot, else the match in position, else "".
ClaimedRegistration(site, cfg, pos) ==
    IF extract_registration(site) # <<>> THEN extract_registration(site)
    ELSE IF extract_registration(cfg) # <<>> THEN extract_registration(cfg)
    ELSE extract_registration(pos)

\* C2: in every row of the normalised table aircraft_registration is the
\* tail-number match of installation_site, else that of config_slot, else that of
\* position, and the empty string (never null) when none of the three has a match.
C2_RegistrationFallsBackToConfigSlotThenPosition ==
    (Prepared /\ ~frame_empty(p_in)) =>
        \A r \in DOMAIN p_out.rows :
            Column(p_out, C_aircraft_registration)[r] =
                Str(ClaimedRegistration(CellOr(p_out, C_installation_site, r),
                                        CellOr(p_out, C_config_slot, r),
                                        CellOr(p_out, C_position, r)))

DerivedFields ==
    {C_days_until_due, C_is_overdue, C_days_overdue, C_due_bucket,
     C_aircraft_registration, C_aircraft_type}

SameColumn(a, b, name) ==
    /\ HasColumn(a.cols, name) <=> HasColumn(b.cols, name)
    /\ HasColumn(a.cols, name) => Column(a, name) = Column(b, name)

\* C3: normalisation is idempotent: normalising the normalised table again with
\* the same reference date gives the same rows and the same derived fields.
C3_PrepareIsIdempotent ==
    p_pc = "twice" =>
        /\ p_out2.status = "ok"
        /\ p_out2.index = p_out.index
        /\ \A name \in DerivedFields : SameColumn(p_out, p_out2, name)

C_due_date_2 == <<"d", "u", "e", "_", "d", "a", "t", "e", "_", "2">>

\* C4: when two input columns both canonicalise to due_date the output has the two
\* columns due_date and due_date_2, each with its own values, and no canonical
\* column name occurs twice in the normalised table.
C4_NoCanonicalNameTwice ==
    (p_pc \in {"once", "twice"} /\ ~frame_empty(p_in)) =>
        /\ p_out.status = "ok"
        /\ \A i, j \in DOMAIN p_out.cols : i # j => p_out.cols[i] # p_out.cols[j]
        /\ LET K == ColPositions(build_rename_map(p_in.cols), C_due_date)
           IN  Cardinality(K) = 2 =>
                /\ HasColumn(p_out.cols, C_due_date)
                /\ HasColumn(p_out.cols, C_due_date_2)
                /\ \A r \in DOMAIN p_out.rows :
                    /\ Column(p_out, C_due_date)[r] =
                          to_datetime(p_in.rows[p_out.index[r]][SetMin(K)], w_now)
                    /\ Column(p_out, C_due_date_2)[r] =
                          to_datetime(p_in.rows[p_out.index[r]][SetMax(K)], w_now)

\* C7: in every row of the normalised table days_until_due is due_date minus
\* reference_date in days, is_overdue is true exactly when days_until_due < 0, and
\* days_overdue is -days_until_due when the row is overdue and 0 otherwise, so it
\* is max(0, -days_until_due) and never negative.
C7_DerivedDayFields ==
    (Prepared /\ ~frame_empty(p_in)) =>
        \A r \in DOMAIN p_out.rows :
            LET due == Column(p_out, C_due_date)[r]
                field == to_datetime(DueField(p_in, p_out.index[r]), w_now)
                d == Column(p_out, C_days_until_due)[r]
                o == Column(p_out, C_is_overdue)[r]
                x == Column(p_out, C_days_overdue)[r]
            IN  /\ due = field
                /\ IF due.k = "null" THEN d = Null ELSE d = Days(due.v - p_ref)
                /\ o = Bool(d.k # "null" /\ d.v < 0)
                /\ x = (IF o.v THEN Days(0 - d.v) ELSE Days(0))
                /\ x.v >= 0
                /\ d.k # "null" => x.v = SetMax({0, 0 - d.v})

\* A normalised table with an overdue row (31 days and a fraction late) beside a
\* row that is not overdue and lies a fraction of a day past the 7-day mark.
C7_Witness ==
    /\ Prepared
    /\ Len(p_out.rows) = 2
    /\ p_ref = RefDay + 1
    /\ Column(p_out, C_is_overdue)[1] = Bool(TRUE)
    /\ Column(p_out, C_days_overdue)[1] = Days(31 * TicksPerDay + 1)
    /\ Column(p_out, C_is_overdue)[2] = Bool(FALSE)
    /\ Column(p_out, C_days_until_due)[2] = Days(7 * TicksPerDay)
    /\ Column(p_out, C_days_overdue)[2] = Days(0)

(***************************************************************************)
(* Claims about _compute_due_bucket (SpecBucket).                          *)
(***************************************************************************)
BucketLabels == {B_Unknown, B_Overdue, B_Due7, B_Due30, B_Due90, B_DueLater}

\* C6: _compute_due_bucket assigns exactly one bucket to every value: Unknown if
\* null, Overdue if d < 0, Due<=7d if 0 <= d <= 7, Due<=30d if 7 < d <= 30,
\* Due<=90d if 30 < d <= 90, Due>90d if d > 90; 0, 7, 30 and 90 belong to the
\* lower bucket.
C6_DueBucketIsTotalWithClosedBounds ==
    b_pc = "done" =>
        LET isnull == b_in.k = "null"
            n == b_in.v
            day == TicksPerDay
        IN  /\ b_out \in BucketLabels
            /\ (b_out = B_Unknown) <=> isnull
            /\ (b_out = B_Overdue) <=> (~isnull /\ n < 0)
            /\ (b_out = B_Due7) <=> (~isnull /\ 0 <= n /\ n <= 7 * day)
            /\ (b_out = B_Due30) <=> (~isnull /\ 7 * day < n /\ n <= 30 * day)
            /\ (b_out = B_Due90) <=> (~isnull /\ 30 * day < n /\ n <= 90 * day)
            /\ (b_out = B_DueLater) <=> (~isnull /\ 90 * day < n)

\* The value exactly 30 days has been classified, as Due <= 30d.
C6_Witness == b_pc = "done" /\ b_in = Days(30 * TicksPerDay) /\ b_out = B_Due30

(***************************************************************************)
(* data_loader.py                                                          *)
(***************************************************************************)
EXPECTED_HEADER_TOKENS == {
    <<"p", "a", "r", "t", " ", "n", "a", "m", "e">>, <<"o", "e", "m", " ", "p", "a", "r", "t", " ", "n", "o">>, <<"s", "e", "r", "i", "a", "l", " ", "n", "o", " ", "/", " ", "b", "a", "t", "c", "h", " ", "n", "o">>, <<"s", "e", "r", "i", "a", "l", " ", "n", "u", "m", "b", "e", "r">>,
    <<"i", "n", "s", "t", "a", "l", "l", "e", "d", " ", "o", "n">>, <<"c", "o", "n", "f", "i", "g", " ", "s", "l", "o", "t">>, <<"d", "u", "e", "_", "d", "a", "t", "e">>, <<"d", "u", "e", " ", "d", "a", "t", "e">>, <<"t", "a", "s", "k">>,
    <<"p", "o", "s", "i", "t", "i", "o", "n">> }

EMPTY_SENTINELS == { <<>>, <<"n", "o", "n", "e">>, <<"n", "a", "n">>, <<"n", "u", "l", "l">>, <<"n", "a">> }

\* line 119: the number of leading rows _promote_header_row looks at
MaxScan == 10
\* line 128: the number of expected tokens a header row shares at least
MinOverlap == 4


\* lines 152-162: the n-th occurrence (n > 1) of a label gets the suffix _n
deduplicate_headers(headers) ==
    LET candidate == [i \in DOMAIN headers |->
                        IF headers[i] = <<>> THEN <<"c", "o", "l", "u", "m", "n">> ELSE headers[i]]
        count == [i \in DOMAIN headers |->
                        Cardinality({j \in 1..i : candidate[j] = candidate[i]})]
    IN  [i \in DOMAIN headers |->
            IF count[i] > 1 THEN candidate[i] \o <<"_">> \o str_of_nat(count[i])
            ELSE candidate[i]]

\* lines 145-149; position counts from 0
safe_column_label(value, position) ==
    LET text == str_strip(str_of_cell(value))
    IN  IF text = <<>> \/ str_lower(text) \in EMPTY_SENTINELS
        THEN <<"c", "o", "l", "u", "m", "n", "_">> \o str_of_nat(position + 1)
        ELSE text

\* lines 122-127: the expected tokens among the cells of a row
header_overlap(row) ==
    LET normalized == {str_lower(str_strip(str_of_cell(row[c]))) : c \in DOMAIN row}
                        \ EMPTY_SENTINELS
    IN  EXPECTED_HEADER_TOKENS \cap normalized

\* line 119: max_scan = min(len(df), 10)
promote_max_scan(df) == IF Len(df.rows) < MaxScan THEN Len(df.rows) ELSE MaxScan

\* lines 114-142
promote_header_row(df) ==
    IF frame_empty(df) THEN df
    ELSE LET hits == {i \in 1..promote_max_scan(df) :
                        Cardinality(header_overlap(df.rows[i])) >= MinOverlap}
         IN  IF hits = {}
             THEN [df EXCEPT !.cols = [c \in DOMAIN df.cols |-> str_strip(df.cols[c])]]
             ELSE LET idx == SetMin(hits)
                      row == df.rows[idx]
                      body == SubSeq(df.rows, idx + 1, Len(df.rows))
                  IN  Frame(deduplicate_headers(
                                [c \in DOMAIN row |-> safe_column_label(row[c], c - 1)]),
                            [r \in DOMAIN body |-> r],
                            body)

\* the columns with at least one cell that is not missing: notna().any(axis=0)
columns_with_values(df) ==
    {c \in DOMAIN df.cols : \E r \in DOMAIN df.rows : df.rows[r][c].k # "null"}

\* df.loc[:, mask] / df.dropna(axis=1, how="all"): the columns at the positions K
select_columns(df, K) ==
    [df EXCEPT !.cols = Pick(df.cols, K),
               !.rows = [r \in DOMAIN df.rows |-> Pick(df.rows[r], K)]]

\* lines 105-108: the columns that are neither "unnamed..." nor report-title noise
named_columns(cols) ==
    {c \in DOMAIN cols :
        /\ ~FindAt(str_lower(cols[c]), <<"u", "n", "n", "a", "m", "e", "d">>, 1)
        /\ ~contains_ignorecase(cols[c], <<"h", "a", "r", "d", "t", "i", "m", "e">>)}

\* lines 95-111
clean_workbook_frame(df) ==
    IF frame_empty(df) THEN df
    ELSE LET promoted == promote_header_row(df)
             dropped == select_columns(promoted, columns_with_values(promoted))
             relabelled == [dropped EXCEPT !.cols =
                              deduplicate_headers(
                                  [c \in DOMAIN dropped.cols |-> str_strip(dropped.cols[c])])]
             named == select_columns(relabelled, named_columns(relabelled.cols))
             valued == select_columns(named, columns_with_values(named))
         IN  [valued EXCEPT !.index = [r \in DOMAIN valued.rows |-> r]]

(***************************************************************************)
(* SpecHeaders: _deduplicate_headers applied to one list of labels.        *)
(***************************************************************************)
MaxHeaders == 3

LabelPool == { <<>>, <<"T", "a", "s", "k">>, <<"T", "a", "s", "k", "_", "2">>, <<"T", "a", "s", "k", "_", "2", "_", "2">>, <<"c", "o", "l", "u", "m", "n">>, <<"P", "o", "s", "i", "t", "i", "o", "n">> }

HeaderLists == UNION {[1..n -> LabelPool] : n \in 0..MaxHeaders}

InitHeaders ==
    /\ h_in \in HeaderLists
    /\ h_out = <<>>
    /\ h_pc = "start"
    /\ PrepIdle /\ BucketIdle /\ LoaderIdle /\ AppIdle /\ AggIdle /\ ClockIdle
       /\ SeriesIdle /\ FormatIdle

CallDeduplicateHeaders ==
    /\ h_pc = "start"
    /\ h_out' = deduplicate_headers(h_in)
    /\ h_pc' = "done"
    /\ UNCHANGED <<h_in, prepVars, bucketVars, loaderVars, appVars, aggVars, clockVars,
                 seriesVars, formatVars>>

NextHeaders == CallDeduplicateHeaders

SpecHeaders == InitHeaders /\ [][NextHeaders]_vars

\* C5: for every list of labels (empty, repeated or already ending in _<number>)
\* _deduplicate_headers returns a list of the same length whose labels are
\* pairwise distinct and non-empty.
C5_DeduplicatedHeadersAreDistinct ==
    h_pc = "done" =>
        /\ Len(h_out) = Len(h_in)
        /\ \A i \in DOMAIN h_out : h_out[i] # <<>>
        /\ \A i, j \in DOMAIN h_out : i # j => h_out[i] # h_out[j]

(***************************************************************************)
(* SpecLoader: _promote_header_row, or _clean_workbook_frame, applied to   *)
(* one table as pandas.read_excel returns it: MaxPre or fewer rows of      *)
(* report metadata, then possibly a header row, then MaxBody or fewer rows *)
(* of SheetBodyRows, under the labels pandas gave the columns.  The rows   *)
(* below are the cells of the sheet; read_excel gives each column one      *)
(* type.                                                                   *)
(***************************************************************************)
MaxPre == 11
MaxBody == 2

TitleRow == << Str(<<"H", "a", "r", "d", "T", "i", "m", "e", "R", "e", "p", "o", "r", "t", "_", "N", "e", "w">>), Null, Null, Null, Null >>
\* three expected tokens only
NearHeaderRow == << Str(<<"P", "a", "r", "t", " ", "N", "a", "m", "e">>), Str(<<"T", "A", "S", "K">>), Str(<<"P", "o", "s", "i", "t", "i", "o", "n">>), Str(<<"Q", "t", "y">>), Null >>
SheetFillerRows == {TitleRow, NearHeaderRow}

SheetHeaderRows == {
    << Str(<<" ", "P", "a", "r", "t", " ", "N", "a", "m", "e", " ">>), Str(<<"D", "U", "E", "_", "D", "A", "T", "E">>), Str(<<"I", "n", "s", "t", "a", "l", "l", "e", "d", " ", "o", "n">>), Str(<<"P", "O", "S", "I", "T", "I", "O", "N">>), Null >>,
    << Str(<<"T", "a", "s", "k">>), Str(<<"C", "o", "n", "f", "i", "g", " ", "s", "l", "o", "t">>), Str(<<"D", "u", "e", " ", "D", "a", "t", "e">>), Str(<<"P", "o", "s", "i", "t", "i", "o", "n">>), Str(<<"N", "u", "l", "l">>) >>,
    << Str(<<"P", "a", "r", "t", " ", "N", "a", "m", "e">>), Null, Str(<<"I", "n", "s", "t", "a", "l", "l", "e", "d", " ", "o", "n">>), Str(<<"P", "O", "S", "I", "T", "I", "O", "N">>), Str(<<"T", "a", "s", "k">>) >>,
    << Str(<<"T", "a", "s", "k">>), Str(<<"T", "a", "s", "k">>), Str(<<"P", "o", "s", "i", "t", "i", "o", "n">>), Str(<<"D", "u", "e", " ", "D", "a", "t", "e">>), Str(<<"P", "a", "r", "t", " ", "N", "a", "m", "e">>) >>,
    << Str(<<"T", "a", "s", "k">>), Str(<<"P", "a", "r", "t", " ", "N", "a", "m", "e">>), Str(<<"P", "o", "s", "i", "t", "i", "o", "n">>), Str(<<"D", "u", "e", " ", "D", "a", "t", "e">>), Str(<<"c", "o", "l", "u", "m", "n", "_", "5">>) >> }

\* A date cell of a sheet is read as a datetime, a whole number as an int.
\* read_excel reads the texts "NA", "null", "nan", "None" and "" of a sheet as
\* missing; "Na" and "Null" stay texts.
SheetBodyRows == {
    << Str(<<"P", "U", "M", "P">>), Str(<<"2", "0", "2", "5", "-", "0", "1", "-", "1", "5">>), Str(<<"B", "O", "E", "I", "N", "G", " ", "7", "8", "7", "-", "8", " ", "-", " ", "E", "T", "-", "A", "T", "G">>), Str(<<"E", "T", "-", "A", "T", "G">>), Null >>,
    << Str(<<"V", "A", "L", "V", "E">>), Ts(Midnight(2024, 8, 1)), Str(<<"B", "O", "E", "I", "N", "G", " ", "7", "8", "7", "-", "8", " ", "-", " ", "E", "T", "-", "A", "O", "T">>), Null, Count(7) >>,
    << Str(<<"P", "a", "r", "t", " ", "N", "a", "m", "e">>), Str(<<"D", "u", "e", " ", "D", "a", "t", "e">>), Str(<<"I", "n", "s", "t", "a", "l", "l", "e", "d", " ", "o", "n">>), Str(<<"P", "o", "s", "i", "t", "i", "o", "n">>), Str(<<"N", "a">>) >> }

SheetLabels == {
    << <<"H", "a", "r", "d", "T", "i", "m", "e", "R", "e", "p", "o", "r", "t", "_", "N", "e", "w", " ", "(", "2", ")">>, <<"U", "n", "n", "a", "m", "e", "d", ":", " ", "1">>, <<"U", "n", "n", "a", "m", "e", "d", ":", " ", "2">>, <<"U", "n", "n", "a", "m", "e", "d", ":", " ", "3">>, <<"U", "n", "n", "a", "m", "e", "d", ":", " ", "4">> >>,
    << <<" ", "P", "a", "r", "t", " ", "N", "a", "m", "e">>, <<"D", "u", "e", " ", "D", "a", "t", "e", " ">>, <<"N", "A">>, <<" ">>, <<"n", "u", "l", "l">> >>,
    << <<"T", "a", "s", "k">>, <<"T", "a", "s", "k", " ">>, <<"T", "a", "s", "k", "_", "2">>, <<"D", "u", "e", " ", "D", "a", "t", "e">>, <<"P", "o", "s", "i", "t", "i", "o", "n">> >> }

Repeat(row, n) == [i \in 1..n |-> row]

\* data_loader.py 64, pd.read_excel: the type of a column.  A column whose
\* cells are datetimes and empty cells is datetime64 and its empty cells are NaT;
\* a column whose cells are whole numbers and empty cells is float64 (7 is 7.0);
\* a column that holds a text keeps every cell as read, empty cells as NaN.
column_kinds(rows, c) == {rows[r][c].k : r \in DOMAIN rows} \ {"null"}
read_excel_cell(rows, r, c) ==
    IF rows[r][c].k = "null"
    THEN (IF column_kinds(rows, c) = {"ts"} THEN NaT ELSE Null)
    ELSE IF /\ column_kinds(rows, c) = {"int"}
            /\ \E q \in DOMAIN rows : rows[q][c].k = "null"
         THEN Float1(10 * rows[r][c].v)
         ELSE rows[r][c]
read_excel(rows) ==
    [r \in DOMAIN rows |-> [c \in DOMAIN rows[r] |-> read_excel_cell(rows, r, c)]]

SheetRowSeqs ==
    {Repeat(filler, pre) \o head \o body :
        filler \in SheetFillerRows,
        pre \in 0..MaxPre,
        head \in {<<>>} \cup {<<h>> : h \in SheetHeaderRows},
        body \in UNION {[1..n -> SheetBodyRows] : n \in 0..MaxBody}}

Sheets ==
    {Frame(labels, [r \in DOMAIN rows |-> r], read_excel(rows)) :
        labels \in SheetLabels, rows \in SheetRowSeqs}

InitLoader ==
    /\ l_in \in Sheets
    /\ l_out = NoFrame
    /\ l_pc = "start"
    /\ PrepIdle /\ BucketIdle /\ HeaderIdle /\ AppIdle /\ AggIdle /\ ClockIdle
       /\ SeriesIdle /\ FormatIdle

CallPromoteHeaderRow ==
    /\ l_pc = "start"
    /\ l_out' = promote_header_row(l_in)
    /\ l_pc' = "promoted"
    /\ UNCHANGED <<l_in, prepVars, bucketVars, headerVars, appVars, aggVars, clockVars,
                 seriesVars, formatVars>>

CallCleanWorkbookFrame ==
    /\ l_pc = "start"
    /\ l_out' = clean_workbook_frame(l_in)
    /\ l_pc' = "cleaned"
    /\ UNCHANGED <<l_in, prepVars, bucketVars, headerVars, appVars, aggVars, clockVars,
                 seriesVars, formatVars>>

NextLoader == CallPromoteHeaderRow \/ CallCleanWorkbookFrame

SpecLoader == InitLoader /\ [][NextLoader]_vars

\* The rows header promotion is said to look at, and those among them that
\* share at least 4 tokens with the expected-header vocabulary.
ScannedRows(df) == 1..(IF Len(df.rows) < 10 THEN Len(df.rows) ELSE 10)
QualifyingRows(df) ==
    {i \in ScannedRows(df) : Cardinality(header_overlap(df.rows[i])) >= 4}
Trimmed(labels) == [c \in DOMAIN labels |-> str_strip(labels[c])]

PromotionAsClaimed(df, out) ==
    IF QualifyingRows(df) # {}
    THEN out.rows = SubSeq(df.rows, SetMin(QualifyingRows(df)) + 1, Len(df.rows))
    ELSE out.rows = df.rows /\ out.cols = Trimmed(df.cols)

\* C8 as stated: header promotion promotes the first of the first min(10, row
\* count) rows that shares at least 4 tokens with the vocabulary, the body is
\* exactly the rows after it in their order, and when no scanned row qualifies no
\* row is discarded and the existing labels are kept, trimmed.
C8_PromotionForEveryTable == l_pc = "promoted" => PromotionAsClaimed(l_in, l_out)

\* The header cells of the repaired table: the cells of the promoted row, or the
\* existing labels when no row is promoted.
HeaderCells(df) ==
    IF QualifyingRows(df) # {}
    THEN [c \in DOMAIN df.cols |-> str_of_cell(df.rows[SetMin(QualifyingRows(df))][c])]
    ELSE df.cols
IsBlankOrSentinel(text) == str_lower(str_strip(text)) \in EMPTY_SENTINELS

\* The positions, in the header row, of the columns _clean_workbook_frame keeps.
KeptPositions(df) ==
    LET promoted == promote_header_row(df)
        K1 == columns_with_values(promoted)
        dropped == select_columns(promoted, K1)
        relabelled == deduplicate_headers(Trimmed(dropped.cols))
        K2 == named_columns(relabelled)
        named == select_columns(dropped, K2)
        K3 == columns_with_values(named)
        P1 == Pick([c \in DOMAIN df.cols |-> c], K1)
        P2 == Pick(P1, K2)
    IN  Pick(P2, K3)

\* C9: in the table header repair returns, every column whose header cell was
\* blank or an empty sentinel is labelled column_<n>, n the 1-based position of
\* the column in the header row, whether a row was promoted or the existing
\* header row was kept.
C9_BlankHeadersGetPositionalLabels ==
    (l_pc = "cleaned" /\ ~frame_empty(l_in)) =>
        LET kept == KeptPositions(l_in)
            cells == HeaderCells(l_in)
        IN  \A j \in DOMAIN l_out.cols :
                IsBlankOrSentinel(cells[kept[j]])
                    => l_out.cols[j] = <<"c", "o", "l", "u", "m", "n", "_">> \o str_of_nat(kept[j])

(***************************************************************************)
(* Spec: one run of the dashboard (streamlit run app.py) or of the command *)
(* line (python cli.py) on a workbook.  Python runs the import statements  *)
(* at the top of the script before main is defined or called; the          *)
(* packages of other projects (pandas, streamlit, plotly, ...) are taken   *)
(* as installed, reportlab excepted.                                       *)
(***************************************************************************)
AppSheetRowSeqs ==
    {Repeat(TitleRow, pre) \o head \o body :
        pre \in 0..1,
        head \in {<<>>} \cup {<<h>> : h \in SheetHeaderRows},
        body \in {SubSeq(b, 1, n) : b \in [1..2 -> SheetBodyRows], n \in {0, 2}}}

AppSheets ==
    {Frame(labels, [r \in DOMAIN rows |-> r], read_excel(rows)) :
        labels \in SheetLabels, rows \in AppSheetRowSeqs}

Sources == [app |-> {"default", "upload"}, cli |-> {"default", "explicit", "missing"}]

\* from <module> import <names>
ImportFrom(module, names) == [module |-> module, names |-> names]

\* the last part of the dotted name of a module
ModuleLeaf(module) ==
    CASE module = "htc_management" -> "htc_management"
      [] module = "htc_management.data_loader" -> "data_loader"
      [] module = "htc_management.analytics" -> "analytics"
      [] module = "htc_management.analytics.preparation" -> "preparation"
      [] module = "htc_management.analytics.summaries" -> "summaries"
      [] module = "htc_management.analytics.breakdowns" -> "breakdowns"
      [] module = "htc_management.analytics.visuals" -> "visuals"
      [] module = "htc_management.analytics.profiling" -> "profiling"
      [] module = "htc_management.analytics.timeseries" -> "timeseries"
      [] module = "htc_management.reporting" -> "reporting"
      [] module = "htc_management.reporting.exporters" -> "exporters"

\* The modules of the repository and the package each lies in.
RepositoryModules ==
    {"htc_management", "htc_management.data_loader", "htc_management.analytics",
     "htc_management.analytics.preparation", "htc_management.analytics.summaries",
     "htc_management.analytics.breakdowns", "htc_management.analytics.visuals",
     "htc_management.analytics.profiling", "htc_management.analytics.timeseries",
     "htc_management.reporting", "htc_management.reporting.exporters"}

ModuleParent(module) ==
    CASE module = "htc_management" -> "none"
      [] module \in {"htc_management.data_loader", "htc_management.analytics",
                     "htc_management.reporting"} -> "htc_management"
      [] module \in {"htc_management.analytics.preparation",
                     "htc_management.analytics.summaries",
                     "htc_management.analytics.breakdowns",
                     "htc_management.analytics.visuals",
                     "htc_management.analytics.profiling",
                     "htc_management.analytics.timeseries"} -> "htc_management.analytics"
      [] module = "htc_management.reporting.exporters" -> "htc_management.reporting"

\* the module a name of a package is the file of, "none" when there is none
Submodule(package, name) ==
    IF \E m \in RepositoryModules :
            ModuleParent(m) = package /\ name = ModuleLeaf(m)
    THEN CHOOSE m \in RepositoryModules : ModuleParent(m) = package /\ name = ModuleLeaf(m)
    ELSE "none"

\* the names Python gives every module, and every package
ModuleDunders ==
    {"__name__", "__doc__", "__package__", "__loader__", "__spec__", "__file__",
     "__cached__", "__builtins__"}
PackageDunders == ModuleDunders \cup {"__path__"}

\* The names bound in a module of the repository once it has run: the names
\* its imports bind, the submodules imported through it, and the names its
\* statements define.  exporters.py 19-26 binds the names of reportlab only
\* when reportlab is installed.  htc_management.reporting never finishes its
\* line 3 and has, as every module outside the repository, no value here.
ModuleNames(module, reportlab) ==
    CASE module = "htc_management" ->
            PackageDunders \cup
            {"__all__", "DEFAULT_REPORT_PATH", "load_report", "prepare_component_dataframe",
             "ComponentSummary", "build_summary", "data_loader", "analytics"}
      [] module = "htc_management.data_loader" ->
            ModuleDunders \cup
            {"annotations", "Path", "Iterable", "Mapping", "pd", "DEFAULT_REPORT_NAME",
             "DEFAULT_REPORT_PATH", "_EXPECTED_HEADER_TOKENS", "_EMPTY_SENTINELS",
             "load_report", "available_sheets", "_clean_workbook_frame",
             "_promote_header_row", "_safe_column_label", "_deduplicate_headers"}
      [] module = "htc_management.analytics" ->
            PackageDunders \cup
            {"__all__", "prepare_component_dataframe", "ComponentSummary", "build_summary",
             "summary_to_frame", "build_aircraft_breakdown", "build_part_breakdown",
             "build_due_bucket_breakdown", "build_due_bucket_chart", "build_aircraft_due_chart",
             "build_part_exposure_chart", "build_timeline_chart", "build_due_time_series_chart",
             "build_overdue_scatter_chart", "build_config_slot_due_scatter",
             "create_days_distribution_plot", "analyze_column_types", "build_due_time_series",
             "preparation", "summaries", "breakdowns", "visuals", "profiling", "timeseries"}
      [] module = "htc_management.analytics.preparation" ->
            ModuleDunders \cup
            {"annotations", "re", "Iterable", "np", "pd", "_NON_ALNUM", "_MULTI_UNDERSCORE",
             "_REGISTRATION_PATTERN", "COLUMN_ALIASES", "DATE_COLUMN_HINT", "_canonicalise",
             "_build_rename_map", "_parse_datetime", "_extract_registration",
             "_extract_aircraft_type", "_compute_due_bucket", "prepare_component_dataframe"}
      [] module = "htc_management.analytics.summaries" ->
            ModuleDunders \cup
            {"__annotations__", "annotations", "dataclass", "Dict", "List", "Sequence",
             "np", "pd", "ComponentSummary", "build_summary", "summary_to_frame", "_format_metric_value",
             "SERIAL_COLUMN_CANDIDATES", "_serial_series", "_count_serials_with_xxx"}
      [] module = "htc_management.analytics.breakdowns" ->
            ModuleDunders \cup
            {"annotations", "pd", "build_aircraft_breakdown", "build_part_breakdown",
             "build_due_bucket_breakdown", "build_config_slot_due_table",
             "_resolve_part_column"}
      [] module = "htc_management.analytics.profiling" ->
            ModuleDunders \cup
            {"annotations", "dataclass", "Iterable", "List", "np", "pd", "ColumnTypeProfile",
             "analyze_column_types"}
      [] module = "htc_management.analytics.timeseries" ->
            ModuleDunders \cup
            {"annotations", "dataclass", "Tuple", "np", "pd", "sm", "TimeSeriesResult",
             "build_due_time_series"}
      [] module = "htc_management.analytics.visuals" ->
            ModuleDunders \cup
            {"annotations", "Tuple", "np", "pd", "px", "sm", "plt", "ScalarMappable",
             "ListedColormap", "sns", "_BLUE", "_RED", "_GREEN", "_PALETTE", "_empty_figure",
             "build_aircraft_due_chart", "build_due_bucket_chart", "build_part_exposure_chart",
             "build_timeline_chart", "build_due_time_series_chart", "build_overdue_scatter_chart",
             "create_days_distribution_plot", "build_config_slot_due_scatter",
             "build_aircraft_exposure_matplot", "build_due_status_donut",
             "build_top_components_matplot", "build_due_timeline_matplot",
             "build_part_aircraft_heatmap"}
      [] module = "htc_management.reporting.exporters" ->
            ModuleDunders \cup
            {"annotations", "io", "Path", "Iterable", "Tuple", "pd",
             "build_aircraft_breakdown", "build_part_breakdown", "build_due_bucket_breakdown",
             "build_config_slot_due_table", "ComponentSummary", "summary_to_frame",
             "_REPORTLAB_AVAILABLE", "export_excel_report", "build_pdf_report", "_table"}
            \cup (IF reportlab
                  THEN {"colors", "A4", "getSampleStyleSheet", "Paragraph", "SimpleDocTemplate",
                        "Spacer", "Table", "TableStyle"}
                  ELSE {})

\* The import statements of the repository a module runs when it is first
\* imported, in order.
ModuleImports(module) ==
    CASE module = "htc_management" ->                                \* __init__.py 3-5
            << ImportFrom("htc_management.data_loader", {"DEFAULT_REPORT_PATH", "load_report"}),
               ImportFrom("htc_management.analytics.preparation",
                          {"prepare_component_dataframe"}),
               ImportFrom("htc_management.analytics.summaries",
                          {"ComponentSummary", "build_summary"}) >>
      [] module = "htc_management.analytics" ->                      \* __init__.py 3-17
            << ImportFrom("htc_management.analytics.preparation",
                          {"prepare_component_dataframe"}),
               ImportFrom("htc_management.analytics.summaries",
                          {"ComponentSummary", "build_summary", "summary_to_frame"}),
               ImportFrom("htc_management.analytics.breakdowns",
                          {"build_aircraft_breakdown", "build_part_breakdown",
                           "build_due_bucket_breakdown"}),
               ImportFrom("htc_management.analytics.visuals",
                          {"build_due_bucket_chart", "build_aircraft_due_chart",
                           "build_part_exposure_chart", "build_timeline_chart",
                           "build_due_time_series_chart", "build_overdue_scatter_chart",
                           "build_config_slot_due_scatter", "create_days_distribution_plot"}),
               ImportFrom("htc_management.analytics.profiling", {"analyze_column_types"}),
               ImportFrom("htc_management.analytics.timeseries", {"build_due_time_series"}) >>
      [] module = "htc_management.reporting" ->                      \* __init__.py 3
            << ImportFrom("htc_management.reporting.exporters",
                          {"export_excel_report", "build_pdf_report", "build_summary_pdf"}) >>
      [] module = "htc_management.reporting.exporters" ->            \* exporters.py 11-17
            << ImportFrom("htc_management.analytics.breakdowns",
                          {"build_aircraft_breakdown", "build_part_breakdown",
                           "build_due_bucket_breakdown", "build_config_slot_due_table"}),
               ImportFrom("htc_management.analytics.summaries",
                          {"ComponentSummary", "summary_to_frame"}) >>
      [] module \in {"htc_management.data_loader", "htc_management.analytics.preparation",
                     "htc_management.analytics.summaries", "htc_management.analytics.breakdowns",
                     "htc_management.analytics.visuals", "htc_management.analytics.profiling",
                     "htc_management.analytics.timeseries"} -> <<>>

\* The state of the interpreter's imports: the modules entered so far
\* (sys.modules) and the exception raised, if any.
Imported(modules) == [status |-> "ok", error |-> "none", modules |-> modules]
ImportFailed(modules) == [status |-> "raised", error |-> "ImportError", modules |-> modules]

\* a module whose body raised is taken out of sys.modules again
leave_module(module, ran) ==
    IF ran.status = "raised" THEN ImportFailed(ran.modules \ {module}) ELSE ran

\* import of a module: its package first, then, unless the module was entered
\* before, its own statements in order.  from-import then looks every name up
\* in the module; a name that is not bound there but is the file of a submodule
\* imports that submodule; ImportError at the first name that is neither.
RECURSIVE import_module(_, _, _), run_imports(_, _, _), import_names(_, _, _, _)
import_module(module, reportlab, state) ==
    IF module \in state.modules THEN state
    ELSE LET package == IF ModuleParent(module) = "none" THEN state
                        ELSE import_module(ModuleParent(module), reportlab, state)
         IN  IF package.status = "raised" THEN package
             ELSE IF module \in package.modules THEN package
             ELSE leave_module(module,
                      run_imports(ModuleImports(module), reportlab,
                                  Imported(package.modules \cup {module})))

import_names(module, names, reportlab, state) ==
    IF names = {} THEN state
    ELSE LET name == CHOOSE n \in names : TRUE
             found == IF name \in ModuleNames(module, reportlab) THEN state
                      ELSE IF Submodule(module, name) # "none"
                           THEN import_module(Submodule(module, name), reportlab, state)
                           ELSE ImportFailed(state.modules)
         IN  IF found.status = "raised" THEN found
             ELSE import_names(module, names \ {name}, reportlab, found)

run_import(statement, reportlab, state) ==
    LET module == import_module(statement.module, reportlab, state)
    IN  IF module.status = "raised" THEN module
        ELSE import_names(statement.module, statement.names, reportlab, module)

run_imports(statements, reportlab, state) ==
    IF statements = <<>> THEN state
    ELSE LET first == run_import(Head(statements), reportlab, state)
         IN  IF first.status = "raised" THEN first
             ELSE run_imports(Tail(statements), reportlab, first)

\* cli.py 10-12
CliImports ==
    << ImportFrom("htc_management",
                  {"DEFAULT_REPORT_PATH", "load_report", "prepare_component_dataframe"}),
       ImportFrom("htc_management.analytics", {"build_summary"}),
       ImportFrom("htc_management.reporting", {"export_excel_report", "build_pdf_report"}) >>

\* app.py 14-35
AppImports ==
    << ImportFrom("htc_management",
                  {"DEFAULT_REPORT_PATH", "load_report", "prepare_component_dataframe"}),
       ImportFrom("htc_management.analytics",
                  {"build_summary", "summary_to_frame", "build_aircraft_breakdown",
                   "build_part_breakdown", "build_due_bucket_breakdown", "analyze_column_types",
                   "build_due_time_series", "build_config_slot_due_scatter",
                   "build_config_slot_due_table"}),
       ImportFrom("htc_management.analytics.visuals",
                  {"build_aircraft_due_chart", "build_due_bucket_chart",
                   "build_part_exposure_chart", "build_timeline_chart",
                   "build_due_time_series_chart", "build_overdue_scatter_chart",
                   "create_days_distribution_plot"}),
       ImportFrom("htc_management.reporting",
                  {"export_excel_report", "build_pdf_report", "build_summary_pdf"}) >>

Init ==
    /\ a_entry \in {"app", "cli"}
    /\ a_source \in Sources[a_entry]
    /\ a_sheet \in AppSheets
    /\ a_today \in {RefDay, RefDay + TicksPerDay}
    /\ a_pc = "import"
    /\ a_reportlab \in BOOLEAN
    /\ a_error = "none"
    /\ a_excel = "absent"
    /\ a_pdf = "absent"
    /\ a_stdout = <<>>
    /\ PrepIdle /\ BucketIdle /\ HeaderIdle /\ LoaderIdle /\ AggIdle /\ ClockIdle
       /\ SeriesIdle /\ FormatIdle

\* The script up to the definition of main: an exception of an import ends
\* the run with a traceback, before main is called.
RunImports(statements) ==
    /\ a_pc = "import"
    /\ a_pc' = IF run_imports(statements, a_reportlab, Imported({})).status = "raised"
              THEN "failed" ELSE "main"
    /\ a_error' = run_imports(statements, a_reportlab, Imported({})).error
    /\ UNCHANGED <<a_entry, a_source, a_sheet, a_today, outVars>>
    /\ UNCHANGED <<prepVars, bucketVars, headerVars, loaderVars, aggVars, clockVars,
                 seriesVars, formatVars>>

\* python cli.py: cli.py 1-12
CliImport == a_entry = "cli" /\ RunImports(CliImports)

\* streamlit run app.py: app.py 1-35
AppImport == a_entry = "app" /\ RunImports(AppImports)

Next ==
    \/ CliImport
    \/ AppImport

Spec == Init /\ [][Next]_vars

\* exporters.py 75: the message of the ImportError build_pdf_report raises
\* without reportlab, and cli.py 55: the line printed for it
ReportLabRequired ==
    <<"R", "e", "p", "o", "r", "t", "L", "a", "b", " ", "i", "s", " ", "r", "e", "q", "u", "i", "r", "e", "d", " ", "f", "o", "r", " ", "P", "D", "F", " ", "e", "x", "p", "o", "r", "t", ".", " ", "I", "n", "s", "t", "a", "l", "l", " ", "i", "t", " ", "v", "i", "a", " ", "U+0060", "p", "i", "p", " ", "i", "n", "s", "t", "a", "l", "l", " ", "r", "e", "p", "o", "r", "t", "l", "a", "b", "U+0060", ".">>
WarnPdfSkipped == <<"[", "W", "A", "R", "N", "]", " ", "P", "D", "F", " ", "e", "x", "p", "o", "r", "t", " ", "s", "k", "i", "p", "p", "e", "d", ":", " ">> \o ReportLabRequired

RunEnded == a_pc \in {"done", "failed"}

(***************************************************************************)
(* analytics/breakdowns.py                                                 *)
(*                                                                         *)
(* A count is a cell Count(n).  A mean rounded to one decimal is a cell      *)
(* Float1(n), the number n / 10.  "--" stands for the one character U+2014 *)
(* of the dash placeholder.                                                *)
(***************************************************************************)

\* ord(c): the place of a character in code-point order
ord(c) == IndexOf(CodeOrder, c)

\* a < b for two str
str_less(a, b) ==
    \E i \in 1..(Len(a) + 1) :
        /\ \A j \in 1..(i - 1) : j <= Len(b) /\ a[j] = b[j]
        /\ i <= Len(b)
        /\ (i = Len(a) + 1 \/ ord(a[i]) < ord(b[i]))

\* The order groupby gives its keys: text ascending, the missing key last.
key_less(a, b) ==
    IF a.k = "null" THEN FALSE
    ELSE IF b.k = "null" THEN TRUE
    ELSE str_less(a.v, b.v)

\* groupby(name, dropna=False): the distinct keys of a column, sorted
group_keys(col) ==
    LET S == Range(col)
    IN  [p \in 1..Cardinality(S) |->
            CHOOSE x \in S : Cardinality({y \in S : key_less(y, x)}) = p - 1]

\* A stable sort of rows by a strict order Less on rows: rows that tie keep
\* their order.
stable_sort(rows, Less(_, _)) ==
    LET n == Len(rows)
        before(j, i) == Less(rows[j], rows[i]) \/ (~Less(rows[i], rows[j]) /\ j < i)
        rank(i) == Cardinality({j \in 1..n : before(j, i)}) + 1
    IN  [p \in 1..n |-> rows[CHOOSE i \in 1..n : rank(i) = p]]

\* reset_index(drop=True)
range_index(rows) == [r \in DOMAIN rows |-> r - 1]

\* pd.DataFrame(columns=headers)
empty_table(headers) == Ok(Frame(headers, <<>>, <<>>))

\* ((s >= 0) & (s <= days)) at one cell: False at NaN
due_within(cell, days) == cell.k = "days" /\ cell.v >= 0 /\ cell.v <= days * TicksPerDay

\* The rows of a group: the positions of the rows whose key cell is key.
group_rows(col, key) == {r \in DOMAIN col : col[r] = key}

\* sum of a boolean column over the rows K
count_true(col, K) == Cardinality({r \in K : col[r].k = "bool" /\ col[r].v})

H_Aircraft == <<"A", "i", "r", "c", "r", "a", "f", "t">>
H_Components == <<"C", "o", "m", "p", "o", "n", "e", "n", "t", "s">>
H_Overdue == <<"O", "v", "e", "r", "d", "u", "e">>
H_Due30 == <<"D", "u", "e", " ", "<=", " ", "3", "0", "d">>
H_Due90 == <<"D", "u", "e", " ", "<=", " ", "9", "0", "d">>
AircraftHeaders == <<H_Aircraft, H_Components, H_Overdue, H_Due30>>

\* sort_values(["Overdue", "Components"], ascending=[False, False]) on rows
\* whose cells at o and c are the two counts
by_overdue_then_count(o, c, x, y) ==
    x[o].v > y[o].v \/ (x[o].v = y[o].v /\ x[c].v > y[c].v)

\* the two sort keys exchanged: Components first, then Overdue
aircraft_less_components_first(x, y) == by_overdue_then_count(4, 3, x, y)

aircraft_less(x, y) == by_overdue_then_count(3, 4, x, y)

\* build_aircraft_breakdown with the guard on is_overdue and days_until_due left out
aircraft_guard_registration_only(df) ==
    frame_empty(df) \/ ~HasColumn(df.cols, C_aircraft_registration)

\* lines 10-14: the conditions under which the empty table is returned
aircraft_guard(df) ==
    \/ frame_empty(df) \/ ~HasColumn(df.cols, C_aircraft_registration)
    \/ ~HasColumn(df.cols, C_is_overdue) \/ ~HasColumn(df.cols, C_days_until_due)

\* lines 16-30.  After rename, the three assignments and drop the columns are
\* Aircraft, Due <= 30d, Overdue, Components in this order.
build_aircraft_breakdown(df) ==
    IF aircraft_guard(df) THEN empty_table(AircraftHeaders)
    ELSE IF ~HasColumn(df.cols, C_is_overdue) \/ ~HasColumn(df.cols, C_days_until_due)
         THEN Raised
    ELSE LET reg == Column(df, C_aircraft_registration)
             over == Column(df, C_is_overdue)
             days == Column(df, C_days_until_due)
             keys == group_keys(reg)
             grouped == [i \in DOMAIN keys |->
                 LET K == group_rows(reg, keys[i])
                 IN  << keys[i],
                        Count(Cardinality({r \in K : due_within(days[r], 30)})),
                        Count(count_true(over, K)),
                        Count(Cardinality(K)) >>]
             sorted == stable_sort(grouped, aircraft_less)
         IN  Ok(Frame(<<H_Aircraft, H_Due30, H_Overdue, H_Components>>,
                      range_index(sorted), sorted))

H_PartName == <<"P", "a", "r", "t", " ", "N", "a", "m", "e">>
H_Occurrences == <<"O", "c", "c", "u", "r", "r", "e", "n", "c", "e", "s">>
PartHeaders == <<H_PartName, H_Occurrences, H_Overdue>>
C_part_name == <<"p", "a", "r", "t", "_", "n", "a", "m", "e">>
DefaultPartTopN == 15

str_startswith(s, prefix) == FindAt(s, prefix, 1)

\* lines 129-130: the test on one column label
looks_like_part(column) ==
    LET label == str_lower(str_strip(column))
    IN  \/ str_contains(label, <<"p", "a", "r", "t", " ", "n", "a", "m", "e">>)
        \/ str_startswith(label, <<"p", "a", "r", "t">>)
        \/ str_contains(label, <<"c", "o", "m", "p", "o", "n", "e", "n", "t">>)

\* _resolve_part_column: the position of the first column of the label
\* returned, 0 for None
resolve_part_column(df) ==
    IF HasColumn(df.cols, C_part_name) THEN SetMin(ColPositions(df.cols, C_part_name))
    ELSE LET K == {c \in DOMAIN df.cols : looks_like_part(df.cols[c])}
         IN  IF K = {} THEN 0 ELSE SetMin(K)

\* DataFrame.head(n) for n >= 0
head(rows, n) == SubSeq(rows, 1, IF n < Len(rows) THEN n ELSE Len(rows))

part_less(x, y) == by_overdue_then_count(3, 2, x, y)

part_head(rows, top_n) == head(rows, top_n)

\* build_part_breakdown(df, top_n=top_n)
build_part_breakdown(df, top_n) ==
    IF frame_empty(df) THEN empty_table(PartHeaders)
    ELSE IF resolve_part_column(df) = 0 \/ ~HasColumn(df.cols, C_is_overdue)
         THEN empty_table(PartHeaders)
    ELSE IF Repeated(df.cols, df.cols[resolve_part_column(df)])
         \* line 42 names every column of that label part_name, and groupby of
         \* line 43 has no single column to group by (ValueError)
         THEN Raised
    ELSE LET pc == resolve_part_column(df)
             part == [r \in DOMAIN df.rows |-> df.rows[r][pc]]
             over == Column(df, C_is_overdue)
             keys == group_keys(part)
             grouped == [i \in DOMAIN keys |->
                 LET K == group_rows(part, keys[i])
                 IN  << keys[i], Count(Cardinality(K)), Count(count_true(over, K)) >>]
             sorted == part_head(stable_sort(grouped, part_less), top_n)
         IN  Ok(Frame(PartHeaders, range_index(sorted), sorted))

H_DueBucket == <<"D", "u", "e", " ", "B", "u", "c", "k", "e", "t">>
BucketHeaders == <<H_DueBucket, H_Components>>

\* sort_values("Components", ascending=False)
bucket_less(x, y) == x[2].v > y[2].v

\* size() with the first row of every group left out of the count
bucket_size_less_one(K) == Cardinality(K) - 1

\* groupby(...).size() for one group
bucket_size(K) == Cardinality(K)

\* build_due_bucket_breakdown(df)
build_due_bucket_breakdown(df) ==
    IF frame_empty(df) THEN empty_table(BucketHeaders)
    ELSE IF ~HasColumn(df.cols, C_due_bucket) THEN empty_table(BucketHeaders)
    ELSE LET bucket == Column(df, C_due_bucket)
             keys == group_keys(bucket)
             grouped == [i \in DOMAIN keys |->
                 << keys[i], Count(bucket_size(group_rows(bucket, keys[i]))) >>]
             sorted == stable_sort(grouped, bucket_less)
         IN  Ok(Frame(BucketHeaders, range_index(sorted), sorted))

H_ConfigSlot == <<"C", "o", "n", "f", "i", "g", " ", "S", "l", "o", "t">>
H_EarliestDue == <<"E", "a", "r", "l", "i", "e", "s", "t", " ", "D", "u", "e">>
H_MedianDue == <<"M", "e", "d", "i", "a", "n", " ", "D", "u", "e">>
H_LatestDue == <<"L", "a", "t", "e", "s", "t", " ", "D", "u", "e">>
H_AvgDays == <<"A", "v", "g", " ", "D", "a", "y", "s", " ", "U", "n", "t", "i", "l", " ", "D", "u", "e">>
ConfigHeaders ==
    <<H_ConfigSlot, H_Components, H_EarliestDue, H_MedianDue, H_LatestDue, H_AvgDays>>
DefaultConfigTopN == 20

RECURSIVE seq_sum(_)
seq_sum(s) == IF s = <<>> THEN 0 ELSE Head(s) + seq_sum(Tail(s))

int_less(x, y) == x < y

\* The quotient num / den (den > 0) rounded to the nearest integer, a tie to
\* the even one: numpy's rounding.
round_half_even(num, den) ==
    LET q == num \div den
        r == num % den
    IN  IF 2 * r < den THEN q
        ELSE IF 2 * r > den THEN q + 1
        ELSE IF q % 2 = 0 THEN q ELSE q + 1

\* Series.value_counts(): the distinct values in order of first appearance with
\* their counts, sorted by count descending, ties keeping their order
value_counts(col) ==
    LET firsts == {r \in DOMAIN col : \A q \in 1..(r - 1) : col[q] # col[r]}
        seen == Pick(col, firsts)
        counted == [i \in DOMAIN seen |->
                        <<seen[i], Count(Cardinality(group_rows(col, seen[i])))>>]
    IN  stable_sort(counted, bucket_less)

\* line 88: working["config_slot"].value_counts().head(top_n).index
top_slots(col, top_n) ==
    LET counted == head(value_counts(col), top_n)
    IN  {counted[i][1] : i \in DOMAIN counted}

\* A timestamp half a tick after the tick t \div 2, for an odd t.
TsHalf(t) == [k |-> "ts_half", v |-> t]
\* twice the instant of a timestamp, in ticks
twice(cell) == IF cell.k = "ts_half" THEN cell.v ELSE 2 * cell.v
midpoint(a, b) == IF (a + b) % 2 = 0 THEN Ts((a + b) \div 2) ELSE TsHalf(a + b)

\* median of the timestamps at the rows K: the middle one, or the instant
\* midway between the two middle ones
median_ts(col, K) ==
    LET s == stable_sort(Pick([r \in DOMAIN col |-> col[r].v], K), int_less)
        n == Len(s)
    IN  IF n % 2 = 1 THEN Ts(s[(n + 1) \div 2]) ELSE midpoint(s[n \div 2], s[n \div 2 + 1])

\* mean of days_until_due over the rows K, NaN skipped, rounded to one decimal
mean_days(col, K) ==
    LET J == {r \in K : col[r].k = "days"}
    IN  IF J = {} THEN Null
        ELSE Float1(round_half_even(10 * seq_sum(Pick([r \in DOMAIN col |-> col[r].v], J)),
                                    Cardinality(J) * TicksPerDay))

\* sort_values(["Earliest Due", "Components"], ascending=[True, False])
config_less(x, y) == x[3].v < y[3].v \/ (x[3].v = y[3].v /\ x[2].v > y[2].v)

\* lines 76-82: the rows with a config slot and a due date
config_working(df) == dropna_subset(dropna_subset(df, C_config_slot), C_due_date)

\* line 79: pd.to_datetime(frame["due_date"]).dt.tz_localize(None) of one value.
\* Without utc=True a text with an offset from UTC gives a time in its own
\* zone: such a text has no value here.
names_offset(s, at) == at # 0 /\ zone_start(SubSeq(s, at + 1, Len(s))) # 0
has_offset(s) == names_offset(s, time_separator(s))
naive_datetime(cell, now) ==
    CASE cell.k # "str" -> to_datetime(cell, now)
      [] cell.k = "str" /\ ~has_offset(str_strip(cell.v)) -> to_datetime(cell, now)

\* the texts pandas reads as NaT without an error
NatStrings == {<<>>, <<"N", "a", "T">>, <<"n", "a", "t">>, <<"N", "A", "T">>, <<"n", "a", "n">>, <<"N", "a", "N">>, <<"N", "A", "N">>}

\* pd.to_datetime(frame["due_date"]) raises for a text that is no date and
\* none of NatStrings
config_to_datetime_raises(frame, now) ==
    CASE one_format(Column(frame, C_due_date)) ->
        \E r \in DOMAIN frame.rows :
            LET cell == Column(frame, C_due_date)[r]
            IN  /\ cell.k = "str"
                /\ cell.v \notin NatStrings
                /\ naive_datetime(cell, now).k = "null"

\* every due date of the table is a timestamp after line 79 (a text of
\* NatStrings gives NaT, which the statistics skip: no value here)
config_dated(frame, now) ==
    \A r \in DOMAIN frame.rows : naive_datetime(Column(frame, C_due_date)[r], now).k = "ts"

\* build_config_slot_due_table(df, top_n=top_n).  Without the column
\* days_until_due the mean is taken over a column of None: object_mean_raises
\* says whether the installed pandas raises for it or gives NaN.
build_config_slot_due_table(df, top_n, object_mean_raises, now) ==
    IF frame_empty(df) \/ ~HasColumn(df.cols, C_config_slot) \/ ~HasColumn(df.cols, C_due_date)
    THEN empty_table(ConfigHeaders)
    \* line 79: pd.to_datetime of a table of two columns due_date (ValueError)
    ELSE IF Repeated(df.cols, C_due_date) THEN Raised
    ELSE LET working == config_working(df)
         IN  IF config_to_datetime_raises(working, now) THEN Raised
             ELSE IF frame_empty(working) THEN empty_table(ConfigHeaders)
             \* lines 89 and 96: working["config_slot"] is a table, and groupby
             \* has no single column to group by (ValueError)
             ELSE IF Repeated(df.cols, C_config_slot) THEN Raised
             ELSE LET slot == Column(working, C_config_slot)
                      top == top_slots(slot, top_n)
                      F == {r \in DOMAIN working.rows : slot[r] \in top}
                  IN  IF F = {} THEN empty_table(ConfigHeaders)
                      ELSE IF ~HasColumn(df.cols, C_days_until_due) /\ object_mean_raises
                           THEN Raised
                      ELSE LET fslot == Pick(slot, F)
                               due == Pick([r \in DOMAIN working.rows |->
                                        naive_datetime(Column(working, C_due_date)[r], now)], F)
                               days == IF HasColumn(df.cols, C_days_until_due)
                                       THEN Pick(Column(working, C_days_until_due), F)
                                       ELSE [r \in 1..Cardinality(F) |-> Null]
                               keys == CASE config_dated(working, now)
                                                /\ ~Repeated(df.cols, C_days_until_due) ->
                                            group_keys(fslot)
                               summary == [i \in DOMAIN keys |->
                                   LET K == group_rows(fslot, keys[i])
                                   IN  << keys[i],
                                          Count(Cardinality(K)),
                                          Ts(SetMin({due[r].v : r \in K})),
                                          median_ts(due, K),
                                          Ts(SetMax({due[r].v : r \in K})),
                                          mean_days(days, K) >>]
                               sorted == stable_sort(summary, config_less)
                           IN  Ok(Frame(ConfigHeaders, range_index(sorted), sorted))

(***************************************************************************)
(* analytics/summaries.py                                                  *)
(***************************************************************************)
C_oem_part_number == <<"o", "e", "m", "_", "p", "a", "r", "t", "_", "n", "u", "m", "b", "e", "r">>
C_serial_number == <<"s", "e", "r", "i", "a", "l", "_", "n", "u", "m", "b", "e", "r">>
SERIAL_COLUMN_CANDIDATES == <<
    <<"s", "e", "r", "i", "a", "l", "_", "n", "u", "m", "b", "e", "r">>,
    <<"S", "e", "r", "i", "a", "l", " ", "N", "u", "m", "b", "e", "r">>,
    <<"s", "e", "r", "i", "a", "l", " ", "n", "o", " ", "/", " ", "b", "a", "t", "c", "h", " ", "n", "o">>,
    <<"S", "e", "r", "i", "a", "l", " ", "N", "o", " ", "/", " ", "B", "a", "t", "c", "h", " ", "N", "o">>,
    <<"S", "e", "r", "i", "a", "l">> >>
AnomalyToken == <<"X", "X", "X">>

\* _serial_series: the place in SERIAL_COLUMN_CANDIDATES of the label of the
\* column returned, 0 for None
serial_candidate(df) ==
    MinOrZero({i \in DOMAIN SERIAL_COLUMN_CANDIDATES :
                HasColumn(df.cols, SERIAL_COLUMN_CANDIDATES[i])})

\* df[column] of line 175 is a table: the label occurs twice
serial_repeated(df) ==
    /\ serial_candidate(df) # 0
    /\ Repeated(df.cols, SERIAL_COLUMN_CANDIDATES[serial_candidate(df)])

\* _serial_series: the position of the column returned, 0 for None
serial_series(df) ==
    IF serial_candidate(df) = 0 THEN 0
    ELSE CASE ~serial_repeated(df) ->
            SetMin(ColPositions(df.cols, SERIAL_COLUMN_CANDIDATES[serial_candidate(df)]))

\* df.get(name, pd.Series(dtype=...)): the column, the empty series without it
get_column(df, name) == IF HasColumn(df.cols, name) THEN Column(df, name) ELSE <<>>

\* The value of a cell as == and hash() see it: True is 1 and 7.0 is 7.
py_value(cell) ==
    IF cell.k = "bool" THEN [k |-> "num", v |-> IF cell.v THEN 10 ELSE 0]
    ELSE IF cell.k = "int" THEN [k |-> "num", v |-> 10 * cell.v]
    ELSE IF cell.k = "float1" THEN [k |-> "num", v |-> cell.v]
    ELSE cell

\* the cells of a column that are not missing
notna(col) == {r \in DOMAIN col : col[r].k # "null"}

\* series.nunique(dropna=True)
nunique(col) == Cardinality({py_value(col[r]) : r \in notna(col)})

\* series.replace("", np.nan).nunique(dropna=True)
nunique_nonempty(col) ==
    Cardinality({py_value(col[r]) : r \in {x \in notna(col) : col[x] # Str(<<>>)}})

\* series.astype("string").nunique(dropna=True): the distinct texts
nunique_as_string(col) == Cardinality({str_of_cell(col[r]) : r \in notna(col)})

\* series.astype("string").str.contains("XXX", case=False, na=False).sum()
count_contains_xxx(col) ==
    Cardinality({r \in notna(col) :
        contains_ignorecase(str_of_cell(col[r]), AnomalyToken)})

\* _count_serials_with_xxx
count_serials_with_xxx(df) ==
    IF serial_candidate(df) = 0 \/ Len(df.rows) = 0 THEN 0
    ELSE count_contains_xxx(column_at(df, serial_series(df)))

\* line 44: part_series is not None and not part_series.dropna().empty
has_part_numbers(df) ==
    /\ HasColumn(df.cols, C_oem_part_number)
    /\ \E r \in DOMAIN df.rows :
          \A c \in ColPositions(df.cols, C_oem_part_number) : df.rows[r][c].k # "null"

\* lines 43-51
unique_components(df) ==
    IF has_part_numbers(df) THEN nunique_as_string(Column(df, C_oem_part_number))
    ELSE IF serial_series(df) # 0
         THEN nunique_as_string(column_at(df, serial_series(df)))
         ELSE nunique_as_string(get_column(df, C_serial_number))

\* ((days_until_due >= 0) & (days_until_due <= days)).sum()
count_due_within(df, days) ==
    LET col == get_column(df, C_days_until_due)
    IN  Cardinality({r \in DOMAIN col : due_within(col[r], days)})

\* df.get("is_overdue", ...).fillna(False).astype(bool).sum()
count_overdue(df) ==
    LET col == get_column(df, C_is_overdue)
    IN  count_true(col, DOMAIN col)

\* Lines 56-82 on a table with a repeated label: where the code expects a
\* column it has a table, sum() and nunique() give one number per column, and
\* int() of them is a TypeError (lines 56, 63, 80, 81, 82); a table of serial
\* columns has no .str (line 73, AttributeError).  Two columns oem_part_number
\* without a part number in any row are not read further.
build_summary_raises(df) ==
    \/ \E name \in {C_is_overdue, C_days_until_due, C_part_name, C_aircraft_registration} :
            Repeated(df.cols, name)
    \/ serial_repeated(df)
    \/ Repeated(df.cols, C_oem_part_number) /\ has_part_numbers(df)

ComponentSummary(total, components, parts, aircraft, overdue, due30, due90, xxx, date) ==
    [total_components |-> total, unique_components |-> components, unique_parts |-> parts,
     unique_aircraft |-> aircraft, overdue_components |-> overdue,
     due_within_30_days |-> due30, due_within_90_days |-> due90,
     serials_with_xxx |-> xxx, report_date |-> date]

\* build_summary has raised
SummaryRaised == [status |-> "raised"]

\* build_summary(df), today the current UTC date at midnight
build_summary(df, today) ==
    IF frame_empty(df) THEN ComponentSummary(0, 0, 0, 0, 0, 0, 0, 0, today)
    ELSE IF build_summary_raises(df) THEN SummaryRaised
    ELSE ComponentSummary(
            Len(df.rows),
            unique_components(df),
            nunique(get_column(df, C_part_name)),
            nunique_nonempty(get_column(df, C_aircraft_registration)),
            count_overdue(df),
            count_due_within(df, 30),
            count_due_within(df, 90),
            count_serials_with_xxx(df),
            today)

Dash == <<"--">>

\* f"{n:,}"
RECURSIVE format_int(_)
format_int(n) ==
    IF n < 1000 THEN str_of_nat(n)
    ELSE format_int(n \div 1000) \o <<",">> \o pad(n % 1000, 3)

\* float("nan")
NaN == [k |-> "nan", v |-> 0]

\* lines 153-160, _format_metric_value(value): None and NaN give the dash, a
\* float (here one with one decimal, kept as its tenths) is printed with two
\* decimals and no thousands separator, an int, a bool or a numpy integer with
\* thousands separators, anything else by str()
format_metric_value(value) ==
    IF value.k = "nan" \/ value \in {Null, NoneCell} THEN Dash
    ELSE IF value.k = "null" THEN str_of_cell(value)
    ELSE IF value.k = "float1"
         THEN LET a == IF value.v < 0 THEN 0 - value.v ELSE value.v
              IN  (IF value.v < 0 THEN <<"-">> ELSE << >>)
                  \o str_of_nat(a \div 10) \o <<".">> \o str_of_nat(a % 10) \o <<"0">>
    ELSE IF value.k = "int"
         THEN IF value.v < 0 THEN <<"-">> \o format_int(0 - value.v)
              ELSE format_int(value.v)
    ELSE IF value.k = "bool" THEN IF value.v THEN <<"1">> ELSE <<"0">>
    ELSE value.v

\* The rows of df at the positions K, as a table
take_rows(df, K) == [df EXCEPT !.index = Pick(df.index, K), !.rows = Pick(df.rows, K)]

H_Metric == <<"M", "e", "t", "r", "i", "c">>
H_All == <<"A", "l", "l", " ", "c", "o", "m", "p", "o", "n", "e", "n", "t", "s">>
SummaryHeaders == <<H_Metric, H_All, H_Overdue, H_Due30, H_Due90>>

M_Total == <<"T", "o", "t", "a", "l", " ", "c", "o", "m", "p", "o", "n", "e", "n", "t", "s">>
M_UniqueComponents == <<"U", "n", "i", "q", "u", "e", " ", "c", "o", "m", "p", "o", "n", "e", "n", "t", "s">>
M_UniqueParts == <<"U", "n", "i", "q", "u", "e", " ", "p", "a", "r", "t", "s">>
M_UniqueAircraft == <<"U", "n", "i", "q", "u", "e", " ", "a", "i", "r", "c", "r", "a", "f", "t">>
M_Overdue == <<"O", "v", "e", "r", "d", "u", "e", " ", "c", "o", "m", "p", "o", "n", "e", "n", "t", "s">>
M_Serials == <<"S", "e", "r", "i", "a", "l", "s", " ", "w", "i", "t", "h", " ", "X", "X", "X">>
M_Generated == <<"R", "e", "p", "o", "r", "t", " ", "g", "e", "n", "e", "r", "a", "t", "e", "d">>

\* lines 111-130: the labels of the metrics, in order
metric_labels ==
    <<M_Total, M_UniqueComponents, M_UniqueParts, M_UniqueAircraft, M_Overdue, M_Serials,
      H_Due30, H_Due90>>

\* str() of the Series that DataFrame.nunique() gives for the columns of one
\* label: a line per column with the label, four spaces and the count aligned
\* to the right, then the dtype
series_line(label, count, width) ==
    label \o <<" ", " ", " ", " ">> \o [i \in 1..(width - Len(str_of_nat(count))) |-> " "]
        \o str_of_nat(count) \o <<"\n">>
RECURSIVE series_lines(_, _, _)
series_lines(label, counts, width) ==
    IF counts = <<>> THEN <<>>
    ELSE series_line(label, Head(counts), width) \o series_lines(label, Tail(counts), width)
series_repr(label, counts) ==
    series_lines(label, counts,
                 SetMax({Len(str_of_nat(counts[i])) : i \in DOMAIN counts}))
        \o <<"d", "t", "y", "p", "e", ":", " ", "i", "n", "t", "6", "4">>
SeriesCell(label, counts) == [k |-> "series", v |-> series_repr(label, counts)]

\* frame.get("part_name", ...).nunique(dropna=True): a count, or with the
\* label on several columns the Series of the counts of these columns
unique_parts_value(frame) ==
    IF Repeated(frame.cols, C_part_name)
    THEN SeriesCell(C_part_name,
            Pick([c \in DOMAIN frame.cols |-> nunique(column_at(frame, c))],
                 ColPositions(frame.cols, C_part_name)))
    ELSE Count(nunique(get_column(frame, C_part_name)))

\* lines 111-130: the value of a metric on a cohort
metric_value(label, frame) ==
    IF label = M_Total THEN Count(Len(frame.rows))
    ELSE IF label = M_UniqueComponents
         THEN Count(IF serial_series(frame) # 0
                    THEN nunique_as_string(column_at(frame, serial_series(frame)))
                    ELSE nunique_as_string(get_column(frame, C_serial_number)))
    ELSE IF label = M_UniqueParts THEN unique_parts_value(frame)
    ELSE IF label = M_UniqueAircraft
         THEN Count(nunique_nonempty(get_column(frame, C_aircraft_registration)))
    ELSE IF label = M_Overdue THEN Count(count_overdue(frame))
    ELSE IF label = M_Serials THEN Count(count_serials_with_xxx(frame))
    ELSE IF label = H_Due30 THEN Count(count_due_within(frame, 30))
    ELSE Count(count_due_within(frame, 90))

\* lines 98-109: the rows of the four cohorts, in the order of the columns
cohorts(df) ==
    LET over == get_column(df, C_is_overdue)
        days == get_column(df, C_days_until_due)
    IN  << DOMAIN df.rows,
           {r \in DOMAIN over : over[r].k = "bool" /\ over[r].v},
           {r \in DOMAIN days : due_within(days[r], 30)},
           {r \in DOMAIN days : due_within(days[r], 90)} >>

\* lines 101-108: df[mask] with the mask an empty series raises for a table
\* that has rows
cohort_mask_raises(df) == Len(df.rows) > 0 /\ ~HasColumn(df.cols, C_days_until_due)

\* line 136: func(cohort_df) if not cohort_df.empty else float("nan")
cohort_value(label, cohort_df) ==
    IF frame_empty(cohort_df) THEN NaN ELSE metric_value(label, cohort_df)

\* summary_to_frame(df, summary)
summary_to_frame(df, summary) ==
    IF cohort_mask_raises(df) THEN Raised
    \* line 183, reached for a cohort that has rows: a table of serial columns
    \* has no .str (AttributeError)
    ELSE IF ~frame_empty(df) /\ serial_repeated(df) THEN Raised
    ELSE LET co == cohorts(df)
             cell(label, K) ==
                 Str(format_metric_value(cohort_value(label, take_rows(df, K))))
             rows == [i \in DOMAIN metric_labels |->
                        <<Str(metric_labels[i])>>
                            \o [c \in DOMAIN co |-> cell(metric_labels[i], co[c])]]
             last == << Str(M_Generated), Str(strftime_date(summary.report_date)),
                        Str(Dash), Str(Dash), Str(Dash) >>
             all == Append(rows, last)
         IN  Ok(Frame(SummaryHeaders, range_index(all), all))

(***************************************************************************)
(* SpecAgg: one aggregation function called on a table.  The table is a    *)
(* normalised table (prepare_component_dataframe applied to a workbook of  *)
(* at most MaxAggRows rows of AggRowPool), the same with one column the    *)
(* aggregations read removed, or a table a caller built with several       *)
(* serial-like columns.  summary_to_frame is called with the summary that  *)
(* build_summary returned for the same table.                              *)
(***************************************************************************)
MaxAggRows == 3
MaxTopN == 2
MaxSerialRows == 1

AggRow(part, serial, site, cfg, due) ==
    [part |-> part, serial |-> serial, site |-> site, cfg |-> cfg, due |-> due]

AggRowPool == {
    AggRow(Str(<<"P", "a", "r", "t", " ", "A">>), Str(<<"S", "N", "-", "0", "0", "1">>), Str(<<"B", "O", "E", "I", "N", "G", " ", "7", "8", "7", "-", "8", " ", "-", " ", "E", "T", "-", "A", "T", "G">>),
           Str(<<"7", "6", "-", "1", "1", "-", "0", "0", "-", "Z", "A", "2">>), Str(<<"2", "0", "2", "4", "-", "1", "0", "-", "0", "1">>)),
    AggRow(Str(<<"P", "a", "r", "t", " ", "B">>), Str(<<"x", "x", "x", "-", "1", "7">>), Str(<<"B", "O", "E", "I", "N", "G", " ", "7", "8", "7", "-", "8", " ", "-", " ", "E", "T", "-", "A", "T", "G">>),
           Str(<<"7", "6", "-", "1", "1", "-", "0", "0", "-", "Z", "A", "2">>), Str(<<"2", "0", "2", "4", "-", "0", "8", "-", "1", "0">>)),
    AggRow(Str(<<"P", "a", "r", "t", " ", "B">>), Null, Str(<<"B", "O", "E", "I", "N", "G", " ", "7", "8", "7", "-", "9", " ", "-", " ", "E", "T", "-", "A", "U", "R">>),
           Str(<<"3", "2", "-", "1", "1", "-", "0", "0", "-", "Z", "A", "7">>), Str(<<"2", "0", "2", "4", "-", "1", "1", "-", "3", "0">>)),
    AggRow(Null, Str(<<"S", "N", "X", "X", "X", "9">>), Str(<<"H", "A", "N", "G", "A", "R", " ", "3">>),
           Null, Str(<<"2", "0", "2", "5", "-", "0", "1", "-", "1", "5">>)) }

AggHeader ==
    << Col(<<"P", "a", "r", "t", " ", "N", "a", "m", "e">>, "part"), Col(<<"S", "e", "r", "i", "a", "l", " ", "N", "o", " ", "/", " ", "B", "a", "t", "c", "h", " ", "N", "o">>, "serial"),
       Col(<<"I", "n", "s", "t", "a", "l", "l", "e", "d", " ", "o", "n">>, "site"), Col(<<"C", "o", "n", "f", "i", "g", " ", "s", "l", "o", "t">>, "cfg"), Col(<<"D", "U", "E", "_", "D", "A", "T", "E">>, "due") >>

AggHeaderNoDue ==
    << Col(<<"P", "a", "r", "t", " ", "N", "a", "m", "e">>, "part"), Col(<<"S", "e", "r", "i", "a", "l", " ", "N", "o", " ", "/", " ", "B", "a", "t", "c", "h", " ", "N", "o">>, "serial"),
       Col(<<"I", "n", "s", "t", "a", "l", "l", "e", "d", " ", "o", "n">>, "site"), Col(<<"C", "o", "n", "f", "i", "g", " ", "s", "l", "o", "t">>, "cfg") >>
\* The header of the workbooks of the tests, with the column OEM Part No: a
\* part number per part, so the cells of the part field.
AggHeaderOem ==
    << AggHeader[1], Col(<<"O", "E", "M", " ", "P", "a", "r", "t", " ", "N", "o">>, "part") >> \o Tail(AggHeader)

\* A workbook with two columns that canonicalise to serial_number, and one
\* with two that canonicalise to part_name.
AggHeaderSerials ==
    << AggHeader[1], AggHeader[2], Col(<<"S", "e", "r", "i", "a", "l", " ", "N", "u", "m", "b", "e", "r">>, "serial") >> \o Tail(Tail(AggHeader))
AggHeaderParts ==
    << AggHeader[1], Col(<<"P", "a", "r", "t", " ", "n", "a", "m", "e">>, "cfg") >> \o Tail(AggHeader)

AggRowSeqs == UNION {[1..n -> AggRowPool] : n \in 0..MaxAggRows}

\* the clock while the samples are prepared (no text of a sample reads it)
SampleClock == RefDay
\* prepare_component_dataframe(raw, reference_date=pd.Timestamp("2024-09-01"))
prepared_sample(header, rows) ==
    LET out == prepare_component_dataframe(MakeFrame(header, rows), RefDay, SampleClock)
    IN  Frame(out.cols, out.index, out.rows)

\* The columns the aggregation functions read.
ReadColumns ==
    {C_part_name, C_serial_number, C_aircraft_registration, C_config_slot, C_due_date,
     C_days_until_due, C_is_overdue, C_due_bucket}

\* df.drop(columns=[name])
drop_column(frame, name) ==
    LET K == {c \in DOMAIN frame.cols : frame.cols[c] # name}
    IN  [frame EXCEPT !.cols = Pick(frame.cols, K),
                      !.rows = [r \in DOMAIN frame.rows |-> Pick(frame.rows[r], K)]]

SerialLayouts == {
    << <<"s", "e", "r", "i", "a", "l", "_", "n", "u", "m", "b", "e", "r">>, <<"S", "e", "r", "i", "a", "l">> >>,
    << <<"S", "e", "r", "i", "a", "l">>, <<"s", "e", "r", "i", "a", "l", "_", "n", "u", "m", "b", "e", "r">> >>,
    << <<"S", "e", "r", "i", "a", "l", " ", "N", "u", "m", "b", "e", "r">>, <<"S", "e", "r", "i", "a", "l", " ", "N", "o", " ", "/", " ", "B", "a", "t", "c", "h", " ", "N", "o">> >>,
    << <<"s", "e", "r", "i", "a", "l", " ", "n", "o", " ", "/", " ", "b", "a", "t", "c", "h", " ", "n", "o">>, <<"S", "e", "r", "i", "a", "l">> >>,
    << <<"s", "e", "r", "i", "a", "l">>, <<"S", "e", "r", "i", "a", "l">> >>,
    << <<"s", "e", "r", "i", "a", "l">>, <<"S", "E", "R", "I", "A", "L">> >> }

SerialCells == {Null, Str(<<"S", "N", "1">>), Str(<<"a", "X", "x", "X", "9">>)}

\* A table with two serial-like columns and the two columns the cohorts read.
SerialTable(layout, cells) ==
    Frame(layout \o <<C_days_until_due, C_is_overdue>>,
          [r \in DOMAIN cells |-> r - 1],
          [r \in DOMAIN cells |-> cells[r] \o <<Days(10 * TicksPerDay), Bool(FALSE)>>])

SerialTables ==
    {SerialTable(layout, cells) :
        layout \in SerialLayouts,
        cells \in UNION {[1..n -> [1..2 -> SerialCells]] : n \in 1..MaxSerialRows}}

TopNs == 1..MaxTopN
Todays == {RefDay, Midnight(2025, 1, 5)}

NoSummary == <<>>

InitAgg ==
    /\ \/ /\ g_kind = "normalized"
          /\ \E rs \in AggRowSeqs :
                \/ \E sample \in {prepared_sample(AggHeader, rs)} :
                      /\ g_missing \in {<<>>} \cup ReadColumns
                      /\ g_in = drop_column(sample, g_missing)
                \/ /\ g_missing = <<>>
                   /\ g_in = prepared_sample(AggHeaderNoDue, rs)
                \/ /\ g_missing = <<>>
                   /\ g_in \in {prepared_sample(h, rs) :
                                   h \in {AggHeaderOem, AggHeaderSerials, AggHeaderParts}}
       \/ /\ g_kind = "raw"
          /\ g_missing = <<>>
          /\ g_in \in SerialTables
    /\ g_topn = 0
    /\ g_today = 0
    /\ g_fn = "none"
    /\ g_summary = NoSummary
    /\ g_out = NoResult
    /\ g_pc = "start"
    /\ PrepIdle /\ BucketIdle /\ HeaderIdle /\ LoaderIdle /\ AppIdle /\ ClockIdle
       /\ SeriesIdle /\ FormatIdle

\* The statements of the summary and breakdown functions that run for the
\* table df; out is what the call gave.
\* summaries.py 40-86: build_summary binds names to columns of df and to
\* values computed from them, and assigns into no table
build_summary_statements(df) ==
    IF frame_empty(df) THEN <<>>
    ELSE << Same("part_series", "df", 43), New("overdue_mask", "df", 55),
            Same("days_until_due", "df", 58), Same("days_overdue", "df", 59) >>

\* summaries.py 98-150: the cohorts are df and three selections of its rows;
\* the table returned is built from the formatted values
summary_to_frame_statements(df, out) ==
    << Same("cohort_all", "df", 99), New("cohort_overdue", "df", 100),
       New("cohort_30", "df", 101), New("cohort_90", "df", 105) >>
    \o (IF out.status = "ok" THEN << Make("return", 150) >> ELSE <<>>)

\* breakdowns.py 10-30
build_aircraft_breakdown_statements(df) ==
    IF aircraft_guard(df) THEN << Make("return", 11) >>
    ELSE << New("working", "df", 16), Same("grouped", "working", 17),
            New("result", "grouped", 19),
            Write("result", 25), Write("result", 26), Write("result", 27),
            Write("result", 28), Write("result", 29),
            New("return", "result", 30) >>

\* breakdowns.py 35-52; groupby of line 43 raises under a repeated label
build_part_breakdown_statements(df, out) ==
    IF frame_empty(df) \/ resolve_part_column(df) = 0 \/ ~HasColumn(df.cols, C_is_overdue)
    THEN << Make("return", 36) >>
    ELSE << New("working", "df", 42) >>
         \o (IF out.status # "ok" THEN <<>>
             ELSE << New("grouped", "working", 43), New("result", "grouped", 47),
                     Write("result", 48), Write("result", 49), Write("result", 50),
                     New("result", "result", 51), Same("return", "result", 52) >>)

\* breakdowns.py 57-65
build_due_bucket_breakdown_statements(df) ==
    IF frame_empty(df) \/ ~HasColumn(df.cols, C_due_bucket) THEN << Make("return", 58) >>
    ELSE << New("grouped", "df", 63), Write("grouped", 64), New("return", "grouped", 65) >>

\* breakdowns.py 70-121: a call that raises or returns the table without rows
\* of line 84 or 91 ends before the assignment of line 118
build_config_slot_due_table_statements(df, out) ==
    IF frame_empty(df) \/ ~HasColumn(df.cols, C_config_slot) \/ ~HasColumn(df.cols, C_due_date)
    THEN << Make("return", 72) >>
    ELSE IF out.status # "ok" THEN << New("working", "df", 76) >>
    ELSE IF out.rows = <<>> THEN << New("working", "df", 76), Make("return", 84) >>
    ELSE << New("working", "df", 76), New("filtered", "working", 89),
            New("summary", "filtered", 95), Write("summary", 118),
            New("summary", "summary", 120), Same("return", "summary", 121) >>

otherVars == <<prepVars, bucketVars, headerVars, loaderVars, appVars, clockVars, seriesVars,
               formatVars>>

CallBuildSummary ==
    /\ g_pc = "start"
    /\ \E today \in Todays :
          /\ g_today' = today
          /\ g_summary' = build_summary(g_in, today)
    /\ g_in' = caller_table(g_in, build_summary_statements(g_in))
    /\ g_fn' = "build_summary"
    /\ g_pc' = "summarised"
    /\ UNCHANGED <<g_kind, g_missing, g_topn, g_out, otherVars>>

\* The summary a caller passes to summary_to_frame with a table: the one
\* build_summary returned for the table or, when build_summary raised, one it
\* holds from a call for another table (only report_date is read).
summary_passed(summary, today) ==
    IF summary = SummaryRaised THEN build_summary(NoFrame, today) ELSE summary

CallSummaryToFrame ==
    /\ g_pc = "summarised"
    /\ g_out' = summary_to_frame(g_in, summary_passed(g_summary, g_today))
    /\ g_in' = caller_table(g_in, summary_to_frame_statements(g_in, g_out'))
    /\ g_fn' = "summary_to_frame"
    /\ g_pc' = "done"
    /\ UNCHANGED <<g_kind, g_missing, g_topn, g_today, g_summary, otherVars>>

CallBuildAircraftBreakdown ==
    /\ g_pc = "start"
    /\ g_out' = build_aircraft_breakdown(g_in)
    /\ g_in' = caller_table(g_in, build_aircraft_breakdown_statements(g_in))
    /\ g_fn' = "build_aircraft_breakdown"
    /\ g_pc' = "done"
    /\ UNCHANGED <<g_kind, g_missing, g_topn, g_today, g_summary, otherVars>>

CallBuildPartBreakdown ==
    /\ g_pc = "start"
    /\ \E n \in TopNs \cup {DefaultPartTopN} :
          /\ g_topn' = n
          /\ g_out' = build_part_breakdown(g_in, n)
    /\ g_in' = caller_table(g_in, build_part_breakdown_statements(g_in, g_out'))
    /\ g_fn' = "build_part_breakdown"
    /\ g_pc' = "done"
    /\ UNCHANGED <<g_kind, g_missing, g_today, g_summary, otherVars>>

CallBuildDueBucketBreakdown ==
    /\ g_pc = "start"
    /\ g_out' = build_due_bucket_breakdown(g_in)
    /\ g_in' = caller_table(g_in, build_due_bucket_breakdown_statements(g_in))
    /\ g_fn' = "build_due_bucket_breakdown"
    /\ g_pc' = "done"
    /\ UNCHANGED <<g_kind, g_missing, g_topn, g_today, g_summary, otherVars>>

CallBuildConfigSlotDueTable ==
    /\ g_pc = "start"
    /\ \E n \in TopNs \cup {DefaultConfigTopN},
          object_mean_raises \in
              (IF HasColumn(g_in.cols, C_days_until_due) THEN {FALSE} ELSE BOOLEAN) :
          /\ g_topn' = n
          /\ g_out' = build_config_slot_due_table(g_in, n, object_mean_raises, w_now)
    /\ g_in' = caller_table(g_in, build_config_slot_due_table_statements(g_in, g_out'))
    /\ g_fn' = "build_config_slot_due_table"
    /\ g_pc' = "done"
    /\ UNCHANGED <<g_kind, g_missing, g_today, g_summary, otherVars>>

NextAgg ==
    \/ CallBuildSummary
    \/ CallSummaryToFrame
    \/ CallBuildAircraftBreakdown
    \/ CallBuildPartBreakdown
    \/ CallBuildDueBucketBreakdown
    \/ CallBuildConfigSlotDueTable

SpecAgg == InitAgg /\ [][NextAgg]_vars

(***************************************************************************)
(* Claims about the aggregation functions (SpecAgg).                       *)
(***************************************************************************)
AggDone(fn) == g_pc = "done" /\ g_fn = fn
Normalized == g_kind = "normalized" /\ g_missing = <<>>

\* The columns each aggregation function reads.
ColumnsRead(fn) ==
    IF fn = "build_part_breakdown" THEN {C_part_name, C_is_overdue}
    ELSE IF fn = "build_due_bucket_breakdown" THEN {C_due_bucket}
    ELSE IF fn = "build_config_slot_due_table" THEN {C_config_slot, C_due_date, C_days_until_due}
    ELSE IF fn \in {"build_summary", "summary_to_frame"}
         THEN {C_part_name, C_serial_number, C_aircraft_registration, C_is_overdue,
               C_days_until_due}
    ELSE {}

\* The fixed column headers of the table each function returns.
FixedHeaders(fn) ==
    IF fn = "build_part_breakdown"
    THEN << <<"P", "a", "r", "t", " ", "N", "a", "m", "e">>, <<"O", "c", "c", "u", "r", "r", "e", "n", "c", "e", "s">>, <<"O", "v", "e", "r", "d", "u", "e">> >>
    ELSE IF fn = "build_due_bucket_breakdown"
    THEN << <<"D", "u", "e", " ", "B", "u", "c", "k", "e", "t">>, <<"C", "o", "m", "p", "o", "n", "e", "n", "t", "s">> >>
    ELSE IF fn = "build_config_slot_due_table"
    THEN << <<"C", "o", "n", "f", "i", "g", " ", "S", "l", "o", "t">>, <<"C", "o", "m", "p", "o", "n", "e", "n", "t", "s">>, <<"E", "a", "r", "l", "i", "e", "s", "t", " ", "D", "u", "e">>, <<"M", "e", "d", "i", "a", "n", " ", "D", "u", "e">>,
            <<"L", "a", "t", "e", "s", "t", " ", "D", "u", "e">>, <<"A", "v", "g", " ", "D", "a", "y", "s", " ", "U", "n", "t", "i", "l", " ", "D", "u", "e">> >>
    ELSE << <<"M", "e", "t", "r", "i", "c">>, <<"A", "l", "l", " ", "c", "o", "m", "p", "o", "n", "e", "n", "t", "s">>, <<"O", "v", "e", "r", "d", "u", "e">>, <<"D", "u", "e", " ", "<=", " ", "3", "0", "d">>, <<"D", "u", "e", " ", "<=", " ", "9", "0", "d">> >>

SummaryFields ==
    {"total_components", "unique_components", "unique_parts", "unique_aircraft",
     "overdue_components", "due_within_30_days", "due_within_90_days",
     "serials_with_xxx", "report_date"}

\* C11: for every non-empty table and every column an aggregation function
\* reads, the function called on the table without that column raises no
\* exception and returns a result of its fixed shape: the summary record, the
\* nine-row summary table, or for the breakdowns a table of the fixed column
\* headers with no rows.
C11_MissingColumnGivesFixedShape ==
    (/\ g_kind = "normalized"
     /\ g_missing # <<>>
     /\ ~frame_empty(g_in)
     /\ g_missing \in ColumnsRead(g_fn))
    => /\ g_fn = "build_summary" => DOMAIN g_summary = SummaryFields
       /\ g_fn = "summary_to_frame" =>
             /\ g_out.status = "ok"
             /\ g_out.cols = FixedHeaders(g_fn)
             /\ Len(g_out.rows) = 9
       /\ g_fn \in {"build_part_breakdown", "build_due_bucket_breakdown",
                    "build_config_slot_due_table"} =>
             /\ g_out.status = "ok"
             /\ g_out.cols = FixedHeaders(g_fn)
             /\ g_out.rows = <<>>

\* C12: build_aircraft_breakdown, called on an empty table or on a table that
\* lacks aircraft_registration, is_overdue or days_until_due, raises no
\* exception and returns a table with zero rows and exactly the column headers
\* Aircraft, Components, Overdue, Due <= 30d.
C12_AircraftBreakdownEmptyShape ==
    (/\ AggDone("build_aircraft_breakdown")
     /\ \/ frame_empty(g_in)
        \/ \E name \in {C_aircraft_registration, C_is_overdue, C_days_until_due} :
              ~HasColumn(g_in.cols, name))
    => /\ g_out.status = "ok"
       /\ g_out.rows = <<>>
       /\ g_out.cols = << <<"A", "i", "r", "c", "r", "a", "f", "t">>, <<"C", "o", "m", "p", "o", "n", "e", "n", "t", "s">>, <<"O", "v", "e", "r", "d", "u", "e">>, <<"D", "u", "e", " ", "<=", " ", "3", "0", "d">> >>

C12_Witness ==
    /\ AggDone("build_aircraft_breakdown")
    /\ Len(g_in.rows) >= 2
    /\ g_missing = C_is_overdue
    /\ HasColumn(g_in.cols, C_aircraft_registration)
    /\ g_out.status = "ok"
    /\ g_out.rows = <<>>
    /\ Len(g_out.cols) = 4

\* The cells of a column of a result table, by row.
OutColumn(name) == Column(g_out, name)

\* C13: for every normalised table, the Components of the rows of
\* build_due_bucket_breakdown add up to the number of rows of the table, and
\* each due_bucket value of the table is the Due Bucket of exactly one row.
C13_BucketBreakdownSumsToRowCount ==
    (AggDone("build_due_bucket_breakdown") /\ Normalized)
    => /\ g_out.status = "ok"
       /\ seq_sum([r \in DOMAIN g_out.rows |-> g_out.rows[r][2].v]) = Len(g_in.rows)
       /\ ~frame_empty(g_in) =>
             \A r \in DOMAIN g_in.rows :
                Cardinality({q \in DOMAIN g_out.rows :
                    g_out.rows[q][1] = Column(g_in, C_due_bucket)[r]}) = 1

C13_Witness ==
    /\ AggDone("build_due_bucket_breakdown") /\ Normalized
    /\ Len(g_in.rows) = 3
    /\ Len(g_out.rows) = 2
    /\ g_out.rows[1][2] = Count(2)
    /\ g_out.rows[2][2] = Count(1)

\* The cell of row r of g_in under a column.
InCell(name, r) == Column(g_in, name)[r]
InRows == DOMAIN g_in.rows

\* C14: for every normalised table build_summary returns total_components =
\* the row count, unique_parts = the number of distinct non-null part_name
\* values, unique_aircraft = the number of distinct non-empty
\* aircraft_registration values, overdue_components = the number of rows with
\* is_overdue true, due_within_30_days (90) = the number of rows with
\* 0 <= days_until_due <= 30 (90); every count is 0 for an empty table.
C14_SummaryCounts ==
    (g_fn = "build_summary" /\ g_pc = "summarised" /\ Normalized)
    => IF Len(g_in.rows) = 0
       THEN \A f \in SummaryFields \ {"report_date"} : g_summary[f] = 0
       ELSE /\ DOMAIN g_summary = SummaryFields
            /\ g_summary.total_components = Len(g_in.rows)
            /\ g_summary.unique_parts =
                  Cardinality({InCell(C_part_name, r).v : r \in
                      {q \in InRows : InCell(C_part_name, q).k # "null"}})
            /\ g_summary.unique_aircraft =
                  Cardinality({InCell(C_aircraft_registration, r).v : r \in InRows} \ {<<>>})
            /\ g_summary.overdue_components =
                  Cardinality({r \in InRows : InCell(C_is_overdue, r) = Bool(TRUE)})
            /\ g_summary.due_within_30_days =
                  Cardinality({r \in InRows :
                      /\ InCell(C_days_until_due, r).k = "days"
                      /\ InCell(C_days_until_due, r).v \in 0..(30 * TicksPerDay)})
            /\ g_summary.due_within_90_days =
                  Cardinality({r \in InRows :
                      /\ InCell(C_days_until_due, r).k = "days"
                      /\ InCell(C_days_until_due, r).v \in 0..(90 * TicksPerDay)})

\* The candidate columns of the table, as positions, in priority order.
CandidatePriority ==
    << <<"s", "e", "r", "i", "a", "l", "_", "n", "u", "m", "b", "e", "r">>, <<"S", "e", "r", "i", "a", "l", " ", "N", "u", "m", "b", "e", "r">>, <<"s", "e", "r", "i", "a", "l", " ", "n", "o", " ", "/", " ", "b", "a", "t", "c", "h", " ", "n", "o">>,
       <<"S", "e", "r", "i", "a", "l", " ", "N", "o", " ", "/", " ", "B", "a", "t", "c", "h", " ", "N", "o">>, <<"S", "e", "r", "i", "a", "l">> >>

\* The number of cells of column c of g_in that contain XXX in any case.
XxxCount(c) ==
    IF c = 0 THEN 0
    ELSE Cardinality({r \in InRows :
            /\ g_in.rows[r][c].k = "str"
            /\ \E i \in 1..Len(g_in.rows[r][c].v) :
                  FindAt(str_lower(g_in.rows[r][c].v), <<"x", "x", "x">>, i)})

ColumnPopulated(c) == \E r \in InRows : g_in.rows[r][c].k # "null"

\* The column of the first candidate, in priority order, that satisfies Use:
\* 0 when there is none.
FirstCandidate(Use(_)) ==
    LET K == {i \in DOMAIN CandidatePriority :
                /\ HasColumn(g_in.cols, CandidatePriority[i])
                /\ Use(SetMin(ColPositions(g_in.cols, CandidatePriority[i])))}
    IN  IF K = {} THEN 0
        ELSE SetMin(ColPositions(g_in.cols, CandidatePriority[SetMin(K)]))

\* The anomaly count of build_summary and, for a table with rows, the cell of
\* the metric 'Serials with XXX' under 'All components' both show the count n.
SerialCountIs(n) ==
    /\ (g_fn \in {"build_summary", "summary_to_frame"} /\ g_pc \in {"summarised", "done"})
          => /\ DOMAIN g_summary = SummaryFields
             /\ g_summary.serials_with_xxx = n
    /\ (AggDone("summary_to_frame") /\ ~frame_empty(g_in))
          => /\ g_out.status = "ok"
             /\ g_out.rows[6][2] = Str(str_of_nat(n))

\* C15: the serial-anomaly count is the number of values containing XXX, in
\* any case, in the first populated candidate column of the priority order,
\* and 0 when no candidate column exists.
C15_CountOverFirstPopulatedSerialColumn ==
    SerialCountIs(XxxCount(FirstCandidate(ColumnPopulated)))

\* C16: for every normalised table summary_to_frame returns the columns
\* Metric, All components, Overdue, Due <= 30d, Due <= 90d in this order and
\* exactly nine rows: the eight metrics in their fixed order, then the row
\* 'Report generated' with the report date under All components and the dash
\* in every other cohort column.
C16_SummaryFrameShape ==
    (AggDone("summary_to_frame") /\ Normalized)
    => /\ g_out.status = "ok"
       /\ g_out.cols =
             << <<"M", "e", "t", "r", "i", "c">>, <<"A", "l", "l", " ", "c", "o", "m", "p", "o", "n", "e", "n", "t", "s">>, <<"O", "v", "e", "r", "d", "u", "e">>, <<"D", "u", "e", " ", "<=", " ", "3", "0", "d">>, <<"D", "u", "e", " ", "<=", " ", "9", "0", "d">> >>
       /\ Len(g_out.rows) = 9
       /\ [r \in 1..8 |-> g_out.rows[r][1]] =
             << Str(<<"T", "o", "t", "a", "l", " ", "c", "o", "m", "p", "o", "n", "e", "n", "t", "s">>), Str(<<"U", "n", "i", "q", "u", "e", " ", "c", "o", "m", "p", "o", "n", "e", "n", "t", "s">>),
                Str(<<"U", "n", "i", "q", "u", "e", " ", "p", "a", "r", "t", "s">>), Str(<<"U", "n", "i", "q", "u", "e", " ", "a", "i", "r", "c", "r", "a", "f", "t">>),
                Str(<<"O", "v", "e", "r", "d", "u", "e", " ", "c", "o", "m", "p", "o", "n", "e", "n", "t", "s">>), Str(<<"S", "e", "r", "i", "a", "l", "s", " ", "w", "i", "t", "h", " ", "X", "X", "X">>),
                Str(<<"D", "u", "e", " ", "<=", " ", "3", "0", "d">>), Str(<<"D", "u", "e", " ", "<=", " ", "9", "0", "d">>) >>
       /\ \A r \in 1..9 : Len(g_out.rows[r]) = 5
       /\ g_out.rows[9] =
             << Str(<<"R", "e", "p", "o", "r", "t", " ", "g", "e", "n", "e", "r", "a", "t", "e", "d">>),
                Str(IF g_today = Midnight(2024, 9, 1) THEN <<"2", "0", "2", "4", "-", "0", "9", "-", "0", "1">> ELSE <<"2", "0", "2", "5", "-", "0", "1", "-", "0", "5">>),
                Str(<<"--">>), Str(<<"--">>), Str(<<"--">>) >>

\* C17: build_aircraft_breakdown returns one row per aircraft_registration
\* group with Components = the number of rows of the group, Overdue = the
\* number of its overdue rows and Due <= 30d = the number of its rows with
\* 0 <= days_until_due <= 30; Overdue never increases from one row to the next
\* and, among rows of equal Overdue, Components never increases.
C17_AircraftBreakdownCountsAndOrder ==
    (/\ AggDone("build_aircraft_breakdown")
     /\ ~frame_empty(g_in)
     /\ \A name \in {C_aircraft_registration, C_is_overdue, C_days_until_due} :
            HasColumn(g_in.cols, name))
    => /\ g_out.status = "ok"
       /\ LET aircraft == OutColumn(<<"A", "i", "r", "c", "r", "a", "f", "t">>)
              components == OutColumn(<<"C", "o", "m", "p", "o", "n", "e", "n", "t", "s">>)
              overdue == OutColumn(<<"O", "v", "e", "r", "d", "u", "e">>)
              due30 == OutColumn(<<"D", "u", "e", " ", "<=", " ", "3", "0", "d">>)
              group(q) == {r \in InRows : InCell(C_aircraft_registration, r) = aircraft[q]}
          IN  /\ \A r \in InRows :
                    Cardinality({q \in DOMAIN g_out.rows :
                        aircraft[q] = InCell(C_aircraft_registration, r)}) = 1
              /\ \A q \in DOMAIN g_out.rows :
                    /\ group(q) # {}
                    /\ components[q] = Count(Cardinality(group(q)))
                    /\ overdue[q] = Count(Cardinality(
                            {r \in group(q) : InCell(C_is_overdue, r) = Bool(TRUE)}))
                    /\ due30[q] = Count(Cardinality(
                            {r \in group(q) :
                                /\ InCell(C_days_until_due, r).k = "days"
                                /\ InCell(C_days_until_due, r).v \in 0..(30 * TicksPerDay)}))
              /\ \A q \in 1..(Len(g_out.rows) - 1) :
                    \/ overdue[q].v > overdue[q + 1].v
                    \/ /\ overdue[q].v = overdue[q + 1].v
                       /\ components[q].v >= components[q + 1].v

C17_Witness ==
    /\ AggDone("build_aircraft_breakdown")
    /\ g_out.status = "ok"
    /\ Len(g_out.rows) = 2
    /\ OutColumn(<<"O", "v", "e", "r", "d", "u", "e">>) = <<Count(1), Count(0)>>
    /\ OutColumn(<<"C", "o", "m", "p", "o", "n", "e", "n", "t", "s">>) = <<Count(1), Count(2)>>
    /\ OutColumn(<<"D", "u", "e", " ", "<=", " ", "3", "0", "d">>) = <<Count(0), Count(0)>>

Min(a, b) == IF a < b THEN a ELSE b

\* C18: build_part_breakdown orders the per-part groups by Overdue descending,
\* then Occurrences descending, and returns the first top_n of them: never more
\* than top_n rows, and no part left out has a strictly higher
\* (Overdue, Occurrences) pair than a part that is returned.
C18_PartBreakdownTopN ==
    (/\ AggDone("build_part_breakdown")
     /\ ~frame_empty(g_in)
     /\ HasColumn(g_in.cols, C_part_name) /\ HasColumn(g_in.cols, C_is_overdue))
    => /\ g_out.status = "ok"
       /\ LET name == OutColumn(<<"P", "a", "r", "t", " ", "N", "a", "m", "e">>)
              occurrences == OutColumn(<<"O", "c", "c", "u", "r", "r", "e", "n", "c", "e", "s">>)
              overdue == OutColumn(<<"O", "v", "e", "r", "d", "u", "e">>)
              Parts == {InCell(C_part_name, r) : r \in InRows}
              Included == Range(name)
              Occ(p) == Cardinality({r \in InRows : InCell(C_part_name, r) = p})
              Over(p) == Cardinality({r \in InRows :
                            InCell(C_part_name, r) = p /\ InCell(C_is_overdue, r) = Bool(TRUE)})
              Higher(p, q) == Over(p) > Over(q) \/ (Over(p) = Over(q) /\ Occ(p) > Occ(q))
          IN  /\ Len(g_out.rows) <= g_topn
              /\ Len(g_out.rows) = Min(g_topn, Cardinality(Parts))
              /\ Included \subseteq Parts
              /\ Cardinality(Included) = Len(g_out.rows)
              /\ \A q \in DOMAIN g_out.rows :
                    /\ occurrences[q] = Count(Occ(name[q]))
                    /\ overdue[q] = Count(Over(name[q]))
              /\ \A q \in 1..(Len(g_out.rows) - 1) : ~Higher(name[q + 1], name[q])
              /\ \A p \in Parts \ Included : \A q \in Included : ~Higher(p, q)

\* What C19 says of the table returned, the slots counted over the rows Rows
\* of the table.
ConfigTableAsClaimed(Rows) ==
    LET slot == OutColumn(<<"C", "o", "n", "f", "i", "g", " ", "S", "l", "o", "t">>)
        components == OutColumn(<<"C", "o", "m", "p", "o", "n", "e", "n", "t", "s">>)
        earliest == OutColumn(<<"E", "a", "r", "l", "i", "e", "s", "t", " ", "D", "u", "e">>)
        median == OutColumn(<<"M", "e", "d", "i", "a", "n", " ", "D", "u", "e">>)
        latest == OutColumn(<<"L", "a", "t", "e", "s", "t", " ", "D", "u", "e">>)
        Slots == {InCell(C_config_slot, r) : r \in Rows}
        RowsOf(s) == {r \in Rows : InCell(C_config_slot, r) = s}
        Kept == Range(slot)
    IN  /\ Kept \subseteq Slots
        /\ Cardinality(Kept) = Len(g_out.rows)
        /\ Len(g_out.rows) = Min(g_topn, Cardinality(Slots))
        /\ \A s \in Slots \ Kept : \A k \in Kept :
              Cardinality(RowsOf(s)) <= Cardinality(RowsOf(k))
        /\ \A q \in DOMAIN g_out.rows :
              /\ components[q] = Count(Cardinality(RowsOf(slot[q])))
              /\ earliest[q] = Ts(SetMin({InCell(C_due_date, r).v : r \in RowsOf(slot[q])}))
              /\ latest[q] = Ts(SetMax({InCell(C_due_date, r).v : r \in RowsOf(slot[q])}))
              /\ median[q].k \in {"ts", "ts_half"}
              /\ twice(earliest[q]) <= twice(median[q])
              /\ twice(median[q]) <= twice(latest[q])
        /\ \A q \in 1..(Len(g_out.rows) - 1) :
              \/ earliest[q].v < earliest[q + 1].v
              \/ /\ earliest[q].v = earliest[q + 1].v
                 /\ components[q].v >= components[q + 1].v

ConfigTableCalled ==
    /\ AggDone("build_config_slot_due_table")
    /\ ~frame_empty(g_in)
    /\ \A name \in {C_config_slot, C_due_date, C_days_until_due} : HasColumn(g_in.cols, name)

\* C19: build_config_slot_due_table keeps the rows whose config_slot is one
\* of the top_n most frequent non-null slot values of the table and returns
\* one row per kept slot with Components = the number of its rows and
\* Earliest Due <= Median Due <= Latest Due over those rows, ordered by
\* Earliest Due ascending and then Components descending.
C19_ConfigSlotTableOverAllRows ==
    ConfigTableCalled =>
        /\ g_out.status = "ok"
        /\ ConfigTableAsClaimed({r \in InRows : InCell(C_config_slot, r).k # "null"})

(***************************************************************************)
(* Claims about the date columns of prepare_component_dataframe (SpecPrep). *)
(***************************************************************************)
\* Texts of the workbooks that are no date.
UnparseableTexts == {<<"N", "/", "A">>, <<"s", "o", "o", "n">>, <<"2", "0", "2", "4", "-", "1", "3", "-", "0", "1">>, <<"2", "0", "2", "4", "-", "0", "2", "-", "3", "0">>}

\* C20: prepare_component_dataframe converts to timestamps exactly the columns
\* whose canonical name contains 'date': no exception is raised, a cell of such
\* a column that cannot be parsed becomes null, and the cells of every other
\* input column are carried to the output unchanged in each retained row.
C20_DateColumnsParsedOthersCarried ==
    (p_pc \in {"once", "twice"})
    => /\ p_out.status = "ok"
       /\ ~frame_empty(p_in) =>
             \A c \in DOMAIN p_in.cols : \A q \in DOMAIN p_out.rows :
                LET r == CHOOSE x \in DOMAIN p_in.rows : p_in.index[x] = p_out.index[q]
                    name == build_rename_map(p_in.cols)[c]
                    old == p_in.rows[r][c]
                    new == p_out.rows[q][c]
                IN  IF str_contains(name, <<"d", "a", "t", "e">>)
                    THEN /\ new.k \in {"ts", "null"}
                         /\ old.k = "ts" => new = old
                         /\ old.k = "null" => new = NaT
                         /\ (old.k = "str" /\ old.v \in UnparseableTexts) => new = NaT
                         /\ (old.k = "str" /\ old.v \notin UnparseableTexts) => new.k = "ts"
                    ELSE new = old

(***************************************************************************)
(* SpecCore: one call of a core operation on a table: a run of SpecPrep or *)
(* a run of SpecAgg.                                                       *)
(***************************************************************************)
InitCore == InitPrep \/ InitAgg

NextCore == NextPrep \/ NextAgg

SpecCore == InitCore /\ [][NextCore]_vars

\* C21: no core operation changes the table it is given: when
\* prepare_component_dataframe, build_summary, summary_to_frame or a breakdown
\* function returns, the caller's table has the columns, labels, rows and cells
\* it had before the call.
C21_InputTableUnchanged ==
    [][/\ p_in' = p_in
       /\ (p_pc = "once" => p_out' = p_out)
       /\ g_in' = g_in]_vars

\* prepare_component_dataframe returned a table with renamed and derived
\* columns for a table with rows, and the caller's table is as it was built
C21_Witness ==
    /\ p_pc = "once"
    /\ p_out.status = "ok"
    /\ Len(p_in.rows) = MaxRows
    /\ p_in \in PrepInputs
    /\ p_out.cols # p_in.cols
    /\ \E r \in DOMAIN p_in.rows, c \in DOMAIN p_in.cols :
            p_in.cols[c] = <<"D", "U", "E", "_", "D", "A", "T", "E">> /\ p_in.rows[r][c].k = "str"
    /\ \E i \in DOMAIN prepare_statements(p_in, p_out) :
            prepare_statements(p_in, p_out)[i] = Write("working", 150)

(***************************************************************************)
(* SpecClock: runs of prepare_component_dataframe on one table with the    *)
(* same argument reference_date, while the wall clock advances.            *)
(***************************************************************************)
MaxClockSteps == 3
MaxRuns == 2

\* pd.Timestamp.normalize(): midnight of the same day
normalize(t) == t - (t % TicksPerDay)

\* line 110: reference_date or pd.Timestamp.utcnow().tz_localize(None).normalize();
\* a Timestamp is true, so utcnow() is evaluated only for reference_date=None
resolve_reference_date(reference_date, utcnow) ==
    IF reference_date.k = "null"
    THEN [value |-> normalize(utcnow), clock_read |-> TRUE]
    ELSE [value |-> reference_date.v, clock_read |-> FALSE]

\* lines 112-114: whether pd.to_datetime reads the clock for a cell "now" or
\* "today" of a column the date loop parses
parse_reads_clock(working) ==
    \E c \in DOMAIN working.cols, r \in DOMAIN working.rows :
        /\ parsed_before(working, c, first_raising(working.cols))
        /\ working.rows[r][c] \in {Str(<<"n", "o", "w">>), Str(<<"t", "o", "d", "a", "y">>)}

\* prepare_component_dataframe(df, reference_date=reference_date) called when
\* the wall clock shows utcnow (w_now); line 105 returns before the clock is
\* looked at
prepare_at(df, reference_date, utcnow) ==
    LET ref == resolve_reference_date(reference_date, utcnow)
    IN  [at |-> utcnow,
         clock_read |-> /\ ~frame_empty(df)
                        /\ ref.clock_read \/ parse_reads_clock(rename_copy(df)),
         out |-> prepare_component_dataframe(df, ref.value, utcnow)]

\* The rows of the workbooks and a row whose dates are the texts "now" and "today".
ClockRowPool ==
    RowPool \cup {Row(Str(<<"n", "o", "w">>), Str(<<"t", "o", "d", "a", "y">>), Str(<<"B", "O", "E", "I", "N", "G", " ", "7", "8", "7", "-", "8", " ", "-", " ", "E", "T", "-", "A", "T", "G">>),
                      Str(<<"E", "T", "-", "A", "V", "B">>), Null, Str(<<"T", "1">>))}

ClockInputs ==
    {MakeFrame(h, rs) : h \in HeaderVariants, rs \in UNION {[1..n -> ClockRowPool] : n \in 0..1}}

ClockStart == RefDay + TicksPerDay - 1

InitClock ==
    /\ w_in \in ClockInputs
    /\ w_ref \in {Null} \cup {Ts(d) : d \in RefDates}
    /\ w_now = ClockStart
    /\ w_outs = <<>>
    /\ PrepIdle /\ BucketIdle /\ HeaderIdle /\ LoaderIdle /\ AppIdle /\ AggIdle
       /\ SeriesIdle /\ FormatIdle

ClockAdvance ==
    /\ w_now < ClockStart + MaxClockSteps
    /\ w_now' = w_now + 1
    /\ UNCHANGED <<w_in, w_ref, w_outs>>
    /\ UNCHANGED <<prepVars, bucketVars, headerVars, loaderVars, appVars, aggVars,
                 seriesVars, formatVars>>

RunPrepare ==
    /\ Len(w_outs) < MaxRuns
    /\ w_outs' = Append(w_outs, prepare_at(w_in, w_ref, w_now))
    /\ w_in' = caller_table(w_in, prepare_statements(w_in, w_outs'[Len(w_outs) + 1].out))
    /\ UNCHANGED <<w_ref, w_now>>
    /\ UNCHANGED <<prepVars, bucketVars, headerVars, loaderVars, appVars, aggVars,
                 seriesVars, formatVars>>

NextClock == ClockAdvance \/ RunPrepare

SpecClock == InitClock /\ [][NextClock]_vars

DeterminedFields ==
    {C_days_until_due, C_is_overdue, C_due_bucket, C_aircraft_registration, C_aircraft_type}

SameFields(a, b) ==
    /\ a.status = b.status
    /\ a.index = b.index
    /\ \A name \in DeterminedFields :
          /\ HasColumn(a.cols, name) <=> HasColumn(b.cols, name)
          /\ HasColumn(a.cols, name) => Column(a, name) = Column(b, name)

\* C22: for a fixed table and an explicitly given reference_date, two runs of
\* prepare_component_dataframe at different wall-clock times give the same
\* days_until_due, is_overdue, due_bucket, aircraft_registration and
\* aircraft_type in every row, and the wall clock is read only when
\* reference_date is not given.
C22_ExplicitReferenceDateIgnoresClock ==
    w_ref # Null =>
        /\ \A i \in DOMAIN w_outs : ~w_outs[i].clock_read
        /\ \A i, j \in DOMAIN w_outs : SameFields(w_outs[i].out, w_outs[j].out)

\* C23: in a run of the command line on a workbook that exists, when the PDF
\* rendering dependency is unavailable the run prints the warning, skips the
\* PDF and finishes normally with the spreadsheet written.
C23_CliRunSurvivesMissingPdfBackend ==
    (a_entry = "cli" /\ RunEnded /\ a_source # "missing" /\ ~a_reportlab)
    => /\ a_pc = "done"
       /\ a_excel = "written"
       /\ a_pdf = "absent"
       /\ \E i \in DOMAIN a_stdout : a_stdout[i] = WarnPdfSkipped

RequiredColumns ==
    {C_due_date, C_days_until_due, C_is_overdue, C_days_overdue, C_due_bucket,
     C_aircraft_registration, C_aircraft_type}

\* C24: for every input table, a table with no rows included, the output of
\* prepare_component_dataframe has the columns due_date, days_until_due,
\* is_overdue, days_overdue, due_bucket, aircraft_registration and aircraft_type,
\* and the input's columns under their canonical names.
C24_OutputHasDerivedColumns ==
    (p_pc \in {"once", "twice"})
    => /\ p_out.status = "ok"
       /\ \A name \in RequiredColumns : HasColumn(p_out.cols, name)
       /\ \A c \in DOMAIN p_in.cols : p_out.cols[c] = build_rename_map(p_in.cols)[c]

(***************************************************************************)
(* analytics/timeseries.py.  A float that is a quotient of integers is the *)
(* cell [k |-> "frac", v |-> <<numerator, denominator>>].                  *)
(***************************************************************************)
C_period == <<"p", "e", "r", "i", "o", "d">>
C_due_count == <<"d", "u", "e", "_", "c", "o", "u", "n", "t">>
C_trend == <<"t", "r", "e", "n", "d">>
SeriesHeaders == <<C_period, C_due_count, C_trend>>

Frac(num, den) == [k |-> "frac", v |-> <<num, den>>]

\* TimeSeriesResult(frame, model_summary, slope)
TimeSeriesResult(frame, model_summary, slope) ==
    [status |-> "ok", cols |-> frame.cols, index |-> frame.index, rows |-> frame.rows,
     model_summary |-> model_summary, slope |-> slope]

day_of(t) == t \div TicksPerDay

\* Monday is 0; 1970-01-01 was a Thursday
weekday(day) == (day + 3) % 7

\* resample(freq): the rule of a frequency alias.  n days ("D", "1D", "2D",
\* "3D"): bins of n days counted from the midnight of the earliest timestamp's
\* day (origin="start_day"), closed and labelled on the left.  "W-XXX" ("W" is
\* "W-SUN"): bins that end with the end of the anchor weekday, closed and
\* labelled on the right.  "MS": the calendar months, labelled by their first
\* day.  Any other alias has no value here.
freq_rule(freq) ==
    CASE freq \in {"D", "1D"} -> [kind |-> "days", n |-> 1]
      [] freq = "2D" -> [kind |-> "days", n |-> 2]
      [] freq = "3D" -> [kind |-> "days", n |-> 3]
      [] freq = "W-MON" -> [kind |-> "week", anchor |-> 0]
      [] freq = "W-TUE" -> [kind |-> "week", anchor |-> 1]
      [] freq = "W-WED" -> [kind |-> "week", anchor |-> 2]
      [] freq = "W-THU" -> [kind |-> "week", anchor |-> 3]
      [] freq = "W-FRI" -> [kind |-> "week", anchor |-> 4]
      [] freq = "W-SAT" -> [kind |-> "week", anchor |-> 5]
      [] freq \in {"W", "W-SUN"} -> [kind |-> "week", anchor |-> 6]
      [] freq = "MS" -> [kind |-> "month"]

\* the first days of the months of the years the model's dates lie in
SeriesYears == 2024..2025
MonthStarts == {DaysFromCivil(y, m, 1) : y \in SeriesYears, m \in 1..12}

\* The label, as a day, of the bin a timestamp falls in; origin is the day of
\* the earliest timestamp.
bin_label(rule, origin, t) ==
    CASE rule.kind = "days" -> origin + ((day_of(t) - origin) \div rule.n) * rule.n
      [] rule.kind = "week" -> day_of(t) + ((rule.anchor + 7 - weekday(day_of(t))) % 7)
      [] rule.kind = "month" -> SetMax({s \in MonthStarts : s <= day_of(t)})

\* the label of the bin after the bin labelled label
bin_step(rule, label) ==
    CASE rule.kind = "days" -> label + rule.n
      [] rule.kind = "week" -> label + 7
      [] rule.kind = "month" -> SetMin({s \in MonthStarts : s > label})

RECURSIVE bin_labels(_, _, _)
bin_labels(rule, first, last) ==
    IF first > last THEN <<>>
    ELSE << first >> \o bin_labels(rule, bin_step(rule, first), last)

\* lines 34-39, 45: indexed.resample(freq).size(): one row per bin from the bin
\* of the earliest due date to the bin of the latest, bins without rows included
resample_size(freq, stamps) ==
    LET rule == freq_rule(freq)
        origin == day_of(SetMin(Range(stamps)))
        labels == {bin_label(rule, origin, stamps[r]) : r \in DOMAIN stamps}
        bins == bin_labels(rule, SetMin(labels), SetMax(labels))
    IN  [i \in DOMAIN bins |->
            [period |-> Ts(bins[i] * TicksPerDay),
             due_count |-> Cardinality({r \in DOMAIN stamps :
                                           bin_label(rule, origin, stamps[r]) = bins[i]})]]

\* line 50 with the trend fitted from two periods on
has_trend_from_two(n) == n >= 2

\* line 50: if len(counts) >= 3
has_trend(n) == n >= 3

\* lines 51-56: least squares of y on x = 0..n-1 with a constant: the slope and
\* the fitted values
ols_fit(y) ==
    LET n == Len(y)
        Sx == seq_sum([i \in 1..n |-> i - 1])
        Sxx == seq_sum([i \in 1..n |-> (i - 1) * (i - 1)])
        Sy == seq_sum(y)
        Sxy == seq_sum([i \in 1..n |-> (i - 1) * y[i]])
        den == n * Sxx - Sx * Sx
    IN  [slope |-> Frac(n * Sxy - Sx * Sy, den),
         predict |-> [i \in 1..n |->
                        Frac((Sy * Sxx - Sx * Sxy) + (n * Sxy - Sx * Sy) * (i - 1), den)]]

ModelSummaryText == [k |-> "text", v |-> <<"O", "L", "S", " ", "R", "e", "g", "r", "e", "s", "s", "i", "o", "n", " ", "R", "e", "s", "u", "l", "t", "s">>]

\* the column due_date holds timestamps and missing values only
holds_timestamps(df) ==
    \A r \in DOMAIN df.rows : Column(df, C_due_date)[r].k \in {"ts", "null"}

\* build_due_time_series(df, freq).  model_summary and slope are None and the
\* column trend is NaN unless line 50 finds three periods.  A table with two
\* columns due_date or with a due_date that is text or a number has no value
\* here.
build_due_time_series(df, freq) ==
    LET empty == TimeSeriesResult(Frame(SeriesHeaders, <<>>, <<>>), NoneCell, NoneCell)
    IN  IF frame_empty(df) \/ ~HasColumn(df.cols, C_due_date) THEN empty
        ELSE CASE ~Repeated(df.cols, C_due_date) /\ holds_timestamps(df) ->
             LET indexed == dropna_subset(df, C_due_date)
             IN  IF Len(indexed.rows) = 0 THEN empty
                 ELSE LET due == Column(indexed, C_due_date)
                          counts == resample_size(freq, [r \in DOMAIN due |-> due[r].v])
                          n == Len(counts)
                          fit == ols_fit([i \in 1..n |-> counts[i].due_count])
                          trend == [i \in 1..n |->
                                      IF has_trend(n) THEN fit.predict[i] ELSE Null]
                      IN  TimeSeriesResult(
                              Frame(SeriesHeaders, [i \in 1..n |-> i - 1],
                                    [i \in 1..n |-> << counts[i].period,
                                                       Count(counts[i].due_count),
                                                       trend[i] >>]),
                              IF has_trend(n) THEN ModelSummaryText ELSE NoneCell,
                              IF has_trend(n) THEN fit.slope ELSE NoneCell)

(***************************************************************************)
(* SpecSeries: one call of build_due_time_series on a table of at most     *)
(* MaxSeriesRows rows, with a part_name and, in most tables, a due_date.   *)
(***************************************************************************)
MaxSeriesRows == 3

\* RefDay, 2024-09-01, is a Sunday; the dates run from Saturday 2024-08-31 to
\* Tuesday 2024-10-01
SeriesDueDates ==
    {Null, NaT, Ts(RefDay - TicksPerDay), Ts(RefDay), Ts(RefDay + TicksPerDay + 1),
     Ts(RefDay + 2 * TicksPerDay), Ts(RefDay + 8 * TicksPerDay),
     Ts(RefDay + 15 * TicksPerDay), Ts(RefDay + 30 * TicksPerDay)}

SeriesTables ==
    UNION {
        {Frame(<<C_part_name, C_due_date>>, [r \in 1..n |-> r - 1],
               [r \in 1..n |-> << Str(<<"P", "a", "r", "t", " ", "A">>), dues[r] >>]) :
            dues \in [1..n -> SeriesDueDates]}
        \cup {Frame(<<C_part_name>>, [r \in 1..n |-> r - 1],
                    [r \in 1..n |-> << Str(<<"P", "a", "r", "t", " ", "A">>) >>])} :
        n \in 0..MaxSeriesRows}

Frequencies ==
    {"D", "1D", "2D", "3D", "W", "W-MON", "W-TUE", "W-WED", "W-THU", "W-FRI", "W-SAT",
     "W-SUN", "MS"}

InitSeries ==
    /\ s_in \in SeriesTables
    /\ s_freq \in Frequencies
    /\ s_out = <<>>
    /\ s_pc = "start"
    /\ PrepIdle /\ BucketIdle /\ HeaderIdle /\ LoaderIdle /\ AppIdle /\ AggIdle
       /\ ClockIdle /\ FormatIdle

CallBuildDueTimeSeries ==
    /\ s_pc = "start"
    /\ s_out' = build_due_time_series(s_in, s_freq)
    /\ s_pc' = "done"
    /\ UNCHANGED <<s_in, s_freq>>
    /\ UNCHANGED <<prepVars, bucketVars, headerVars, loaderVars, appVars, aggVars,
                 clockVars, formatVars>>

NextSeries == CallBuildDueTimeSeries

SpecSeries == InitSeries /\ [][NextSeries]_vars

DatedRows == {r \in DOMAIN s_in.rows : Column(s_in, C_due_date)[r].k # "null"}

FormatInputs ==
    {Null, NoneCell, NaT, NA, NaN, Float1(25), Str(<<"n", "/", "a">>)}
        \cup {Count(n) : n \in {0, 7, 999, 1000, 12345, 999999, 1000000, 1234567}}

InitFormat ==
    /\ f_in \in FormatInputs
    /\ f_out = <<>>
    /\ f_pc = "start"
    /\ PrepIdle /\ BucketIdle /\ HeaderIdle /\ LoaderIdle /\ AppIdle /\ AggIdle /\ ClockIdle
    /\ SeriesIdle

CallFormatMetricValue ==
    /\ f_pc = "start"
    /\ f_out' = format_metric_value(f_in)
    /\ f_pc' = "done"
    /\ UNCHANGED <<f_in, prepVars, bucketVars, headerVars, loaderVars, appVars, aggVars,
                   clockVars, seriesVars>>

NextFormat == CallFormatMetricValue

SpecFormat == InitFormat /\ [][NextFormat]_vars

InitCohort == InitAgg \/ InitFormat

NextCohort == NextAgg \/ NextFormat

SpecCohort == InitCohort /\ [][NextCohort]_vars

\* text is the decimal digits of n in groups of three from the right, with a
\* comma between two groups
GroupedDigits(text, n) ==
    /\ SelectSeq(text, LAMBDA c : c # ",") = str_of_nat(n)
    /\ \A i \in DOMAIN text : (text[i] = ",") <=> ((Len(text) - i + 1) % 4 = 0)
    /\ text # <<>> /\ text[1] # ","

\* The rows of the cohort shown in column c of the cohort table (2: all
\* components, 3: overdue, 4: due within 30 days, 5: due within 90 days)
CohortRows(c) ==
    IF c = 2 THEN InRows
    ELSE IF c = 3 THEN {r \in InRows : InCell(C_is_overdue, r) = Bool(TRUE)}
    ELSE {r \in InRows :
            /\ InCell(C_days_until_due, r).k = "days"
            /\ InCell(C_days_until_due, r).v >= 0
            /\ InCell(C_days_until_due, r).v <= (IF c = 4 THEN 30 ELSE 90) * TicksPerDay}

\* The count each metric stands for, over the rows K of g_in: the rows, the
\* distinct serial numbers (as texts), the distinct part names, the distinct
\* non-empty registrations, the overdue rows, the serial numbers that contain
\* XXX, and the rows due within 30 and within 90 days.
MetricCount(m, K) ==
    LET Texts(name) == {str_of_cell(InCell(name, r)) :
                            r \in {q \in K : InCell(name, q).k # "null"}}
        DueIn(days) == {r \in K : /\ InCell(C_days_until_due, r).k = "days"
                                  /\ InCell(C_days_until_due, r).v \in 0..(days * TicksPerDay)}
    IN  CASE m = 1 -> Cardinality(K)
          [] m = 2 -> Cardinality(Texts(C_serial_number))
          [] m = 3 -> Cardinality(Texts(C_part_name))
          [] m = 4 -> Cardinality(Texts(C_aircraft_registration) \ {<<>>})
          [] m = 5 -> Cardinality({r \in K : InCell(C_is_overdue, r) = Bool(TRUE)})
          [] m = 6 -> Cardinality({r \in K :
                        /\ InCell(C_serial_number, r).k = "str"
                        /\ str_contains(str_lower(InCell(C_serial_number, r).v), <<"x", "x", "x">>)})
          [] m = 7 -> Cardinality(DueIn(30))
          [] m = 8 -> Cardinality(DueIn(90))

\* C26: in the cohort table of summary_to_frame every metric cell of a cohort
\* with at least one row is the metric's count written as an integer with
\* thousands separators, and every metric cell of a cohort with no rows, Total
\* components included, is the dash and not 0.
C26_CohortCellsAreCountsOrDash ==
    /\ (AggDone("summary_to_frame") /\ Normalized)
       => /\ g_out.status = "ok"
          /\ \A m \in 1..8 : \A c \in 2..5 :
                IF CohortRows(c) = {}
                THEN g_out.rows[m][c] = Str(<<"--">>)
                ELSE /\ g_out.rows[m][c].k = "str"
                     /\ \E n \in 0..Cardinality(CohortRows(c)) :
                            GroupedDigits(g_out.rows[m][c].v, n)
          /\ \A m \in 1..8 : \A c \in 2..5 :
                CohortRows(c) # {} =>
                    GroupedDigits(g_out.rows[m][c].v, MetricCount(m, CohortRows(c)))
    /\ (f_pc = "done" /\ f_in.k = "int") => GroupedDigits(f_out, f_in.v)
    /\ (f_pc = "done" /\ f_in \in {Null, NoneCell, NaN}) => f_out = <<"--">>

\* C27: in every table prepare_component_dataframe returns for a table with
\* rows, the derived fields of a row agree: is_overdue is true exactly when
\* due_bucket is Overdue and exactly when days_overdue > 0; due_bucket is Unknown
\* exactly when days_until_due is null, and then is_overdue is false and
\* days_overdue is 0.
C27_DerivedFieldsAgree ==
    (Prepared /\ ~frame_empty(p_in)) =>
        \A r \in DOMAIN p_out.rows :
            LET d == Column(p_out, C_days_until_due)[r]
                o == Column(p_out, C_is_overdue)[r]
                x == Column(p_out, C_days_overdue)[r]
                b == Column(p_out, C_due_bucket)[r]
            IN  /\ o.k = "bool" /\ x.k = "days" /\ b.k = "str"
                /\ o.v <=> (b.v = <<"O", "v", "e", "r", "d", "u", "e">>)
                /\ o.v <=> (x.v > 0)
                /\ (b.v = <<"U", "n", "k", "n", "o", "w", "n">>) <=> (d = Null)
                /\ d = Null => (~o.v /\ x.v = 0)

\* a returned table with an overdue row and a row due at the reference date
C27_Witness ==
    /\ Prepared /\ ~frame_empty(p_in)
    /\ Len(p_out.rows) = 2
    /\ Column(p_out, C_days_until_due)[1] = Days(0)
    /\ Column(p_out, C_due_bucket)[1] = Str(<<"D", "u", "e", " ", "<=", " ", "7", "d">>)
    /\ Column(p_out, C_is_overdue)[2] = Bool(TRUE)
    /\ Column(p_out, C_days_overdue)[2].v > 0

Summarised == g_pc \in {"summarised", "done"} /\ g_fn \in {"build_summary", "summary_to_frame"}

\* C28: for every normalised table the Overdue cohort and the Due <= 90d cohort
\* are disjoint and the Due <= 30d cohort is part of the Due <= 90d cohort; so
\* build_summary gives due_within_30_days <= due_within_90_days and
\* overdue_components + due_within_90_days <= total_components, and
\* due_within_30_days is the number of rows whose due_bucket is Due <= 7d or
\* Due <= 30d.
C28_CohortsNestedAndDisjoint ==
    (Summarised /\ Normalized)
    => LET co == cohorts(g_in)
       IN  /\ co[2] \cap co[4] = {}
           /\ co[3] \subseteq co[4]
           /\ DOMAIN g_summary = SummaryFields
           /\ g_summary.due_within_30_days <= g_summary.due_within_90_days
           /\ g_summary.overdue_components + g_summary.due_within_90_days
                 <= g_summary.total_components
           /\ g_summary.due_within_30_days =
                 Cardinality({r \in InRows :
                                 InCell(C_due_bucket, r) \in {Str(<<"D", "u", "e", " ", "<=", " ", "7", "d">>), Str(<<"D", "u", "e", " ", "<=", " ", "3", "0", "d">>)}})

\* the numbers in a column of counts
CountsOf(frame, name) ==
    LET col == Column(frame, name) IN [r \in DOMAIN col |-> col[r].v]

\* C29: for every non-empty normalised table build_aircraft_breakdown has
\* exactly one row per distinct aircraft_registration value, the empty string
\* a group of its own: the Components column sums to the number of rows of
\* the table, the Overdue column sums to overdue_components of build_summary,
\* and the number of rows is unique_aircraft of build_summary, plus one when
\* some row has an empty registration.
C29_AircraftBreakdownPartitionsTable ==
    (AggDone("build_aircraft_breakdown") /\ Normalized /\ Len(g_in.rows) > 0)
    => LET summary == build_summary(g_in, RefDay)
           reg == Column(g_in, C_aircraft_registration)
           aircraft == Column(g_out, H_Aircraft)
       IN  /\ g_out.status = "ok"
           /\ DOMAIN summary = SummaryFields
           /\ Range(aircraft) = Range(reg)
           /\ Cardinality(Range(aircraft)) = Len(g_out.rows)
           /\ seq_sum(CountsOf(g_out, H_Components)) = Len(g_in.rows)
           /\ seq_sum(CountsOf(g_out, H_Overdue)) = summary.overdue_components
           /\ Len(g_out.rows) =
                 summary.unique_aircraft
                    + (IF \E r \in InRows : reg[r] = Str(<<>>) THEN 1 ELSE 0)

\* the fields of a summary in the order of metric_labels
summary_fields(summary) ==
    << summary.total_components, summary.unique_components, summary.unique_parts,
       summary.unique_aircraft, summary.overdue_components, summary.serials_with_xxx,
       summary.due_within_30_days, summary.due_within_90_days >>

\* the cell of the column All components in the row of the i-th metric is the
\* formatted i-th field of the summary
AllComponentsCellAgrees(i) ==
    Column(g_out, H_All)[i] = Str(format_metric_value(Count(summary_fields(g_summary)[i])))

\* C30: for every non-empty normalised table each metric in the column
\* All components of summary_to_frame is the formatted value of the field of
\* build_summary of the same table: total, unique components, unique parts,
\* unique aircraft, overdue components, serials with XXX, due within 30 and
\* within 90 days.
C30_AllComponentsColumnIsSummary ==
    (AggDone("summary_to_frame") /\ Normalized /\ Len(g_in.rows) > 0)
    => /\ g_out.status = "ok"
       /\ DOMAIN g_summary = SummaryFields
       /\ \A i \in DOMAIN metric_labels : AllComponentsCellAgrees(i)

====
